---- MODULE Spec2Model ----
(***************************************************************************)
(* State-machine model of the priceslash geospatial analytics engines      *)
(* (src/pricepoint-intel/geospatial): the variance / anomaly detector and  *)
(* the proximity analyzer.                                                 *)
(*                                                                         *)
(* Numbers.  The Python code computes on floats.  The model computes the   *)
(* same expressions exactly: a float is a rational [num, den] in lowest    *)
(* terms with den > 0, and a value that the code obtains through           *)
(* math.sqrt (std_dev, hence every z-score) is a signed square root        *)
(* [none, sgn, sq] standing for sgn * sqrt(sq); None is the value with     *)
(* none = TRUE.  A comparison |z| >= t is decided as sq >= t * t.          *)
(***************************************************************************)
EXTENDS Integers, Sequences, FiniteSets, Bags, TLC

VARIABLES
    pricing_data,     \* the pricing records handed to the variance engine
    detector,         \* VarianceDetector fields: the two thresholds
    last_op,          \* the engine operation whose result the state holds
    base_arg,         \* base_region_id argument of calculate_regional_variance
    variances,        \* result of calculate_regional_variance
    anomalies,        \* result of detect_anomalies
    cv_threshold,     \* threshold_cv argument of get_high_variance_skus
    high_variance,    \* result of get_high_variance_skus
    sev_in,           \* arguments of the last determine_severity call
    sev_out,          \* its result
    analyzer,         \* ProximityAnalyzer fields
    distribution_centers, \* the distribution center records handed over
    prox_op,          \* the analyzer operation whose result the state holds
    prox_args,        \* its market and vendor arguments
    coverage,         \* result of analyze_vendor_coverage
    market_coverages, \* result of analyze_market_vendors
    gap_threshold,    \* min_coverage_score argument of find_coverage_gaps
    gaps,             \* result of find_coverage_gaps
    score_op,         \* the distance function last called
    score_in,         \* its arguments
    score_out,        \* its result
    benchmarker,      \* MarketBenchmarker fields
    bench_data,       \* the current pricing records handed to the benchmarker
    bench_op,         \* the benchmarker operation last called
    historical_data,  \* historical_data argument of create_sku_benchmarks
    benchmarks,       \* result of create_sku_benchmarks
    vendor_pricing,   \* vendor_pricing argument of compare_vendor_to_benchmark
    comparisons,      \* result of compare_vendor_to_benchmark
    summary,          \* result of get_vendor_competitiveness_summary
    clock,            \* the wall clock read by datetime.now()
    run,              \* the latest invocation: operation, input, entities
    previous_run,     \* the invocation before it
    limiter,          \* RateLimiter fields: max_requests, window_seconds, requests
    wall,             \* the value time.time() returns
    acquire_pc,       \* where the latest acquire() call stands
    sleep_until,      \* the time at which its time.sleep() is over
    granted,          \* every timestamp acquire() has appended, in order
    endpoint,         \* arguments of fetch_paginated: config fields, max_pages
    fetch_pc,         \* where the fetch_paginated call stands
    page,             \* its page counter
    current_params,   \* its query parameters
    combined_result,  \* its combined FetchResult
    page_log          \* the page requests it has made, each with its result

variance_vars == <<pricing_data, detector, last_op, base_arg, variances,
                   anomalies, cv_threshold, high_variance>>

severity_vars == <<sev_in, sev_out>>

proximity_vars == <<analyzer, distribution_centers, prox_op, prox_args,
                    coverage, market_coverages, gap_threshold, gaps>>

score_vars == <<score_op, score_in, score_out>>

benchmark_vars == <<benchmarker, bench_data, bench_op, historical_data,
                    benchmarks, vendor_pricing, comparisons, summary>>

run_vars == <<clock, run, previous_run>>

limiter_vars == <<limiter, wall, acquire_pc, sleep_until, granted>>

paginated_vars == <<endpoint, fetch_pc, page, current_params,
                    combined_result, page_log>>

ingestion_vars == <<limiter_vars, paginated_vars>>

vars == <<variance_vars, severity_vars, proximity_vars, score_vars,
          benchmark_vars, run_vars, ingestion_vars>>

---------------------------------------------------------------------------
(* Bounds of the model *)

MaxRecords == 4

MaxCenters == 3

MaxBenchRecords == 3

MaxCategoryRecords == 6

MaxFeed == 11

MaxClock == 1

(* the latest time at which the clock is advanced or acquire() is called *)
MaxWall == 4

(* most records in the answer to one page request *)
MaxPageRecords == 2

MaxPrices == 3

MaxUniformRecords == 3

(* records of one SKU in a detection at the configured thresholds *)
MaxThresholdRecords == 6

---------------------------------------------------------------------------
(* Exact arithmetic standing for the float arithmetic of the code *)

Abs(x) == IF x < 0 THEN -x ELSE x

Sign(x) == IF x < 0 THEN -1 ELSE IF x > 0 THEN 1 ELSE 0

RECURSIVE GCD(_, _)
GCD(a, b) == IF b = 0 THEN a ELSE GCD(b, a % b)

Rat(n, d) ==
    LET g == GCD(Abs(n), Abs(d))
        s == IF d < 0 THEN -1 ELSE 1
    IN  [num |-> (s * n) \div g, den |-> (s * d) \div g]

RInt(n) == [num |-> n, den |-> 1]

RZero == RInt(0)

RAdd(a, b) == Rat(a.num * b.den + b.num * a.den, a.den * b.den)

RSub(a, b) == Rat(a.num * b.den - b.num * a.den, a.den * b.den)

RMul(a, b) == Rat(a.num * b.num, a.den * b.den)

RDiv(a, b) == Rat(a.num * b.den, a.den * b.num)

RAbs(a) == [num |-> Abs(a.num), den |-> a.den]

RLt(a, b) == a.num * b.den < b.num * a.den

RLe(a, b) == a.num * b.den <= b.num * a.den

RGe(a, b) == RLe(b, a)

RGt(a, b) == RLt(b, a)

RECURSIVE RSum(_)
RSum(s) == IF s = <<>> THEN RZero ELSE RAdd(Head(s), RSum(Tail(s)))

(* sgn * sqrt(sq): the values produced through math.sqrt *)
Surd(s, q) == [none |-> FALSE, sgn |-> IF q.num = 0 THEN 0 ELSE s, sq |-> q]

NoneZ == [none |-> TRUE, sgn |-> 0, sq |-> RZero]

(* abs(z) >= t for a rational t *)
SurdAbsGe(z, t) == RLe(t, RZero) \/ RGe(z.sq, RMul(t, t))

(* an exception that leaves an operation instead of its result *)
ZeroDivisionError == [error |-> "ZeroDivisionError"]

(* the result is an error report, not a value *)
IsErrorReport(out) == "error" \in DOMAIN out

(* an operation that returns a list and raises instead: the list that holds
   the error report alone *)
Raised(error) == <<error>>

IsRaised(out) == Len(out) = 1 /\ IsErrorReport(out[1])

---------------------------------------------------------------------------
(* binary64 arithmetic: the float operations as the interpreter carries them
   out, every result rounded to the nearest binary64, ties to even.
   Infinities, NaN, subnormal numbers and the sign of zero are left out. *)

(* natural numbers of any size: limbs of LimbBits bits, lowest first, the
   highest not 0 *)
LimbBits == 14

LimbBase == 16384

Limb(b, i) == IF i <= Len(b) THEN b[i] ELSE 0

BNorm(s) ==
    SubSeq(s, 1, CHOOSE k \in 0..Len(s) :
                     /\ k = 0 \/ s[k] # 0
                     /\ \A j \in k + 1..Len(s) : s[j] = 0)

RECURSIVE BCarry(_, _, _)
BCarry(raw, i, carry) ==
    IF i > Len(raw)
    THEN IF carry = 0 THEN <<>> ELSE BCarry(<<carry>>, 1, 0)
    ELSE <<(raw[i] + carry) % LimbBase>>
             \o BCarry(raw, i + 1, (raw[i] + carry) \div LimbBase)

BFix(raw) == BNorm(BCarry(raw, 1, 0))

BFromInt(n) == BFix(<<n>>)

BAdd(a, b) ==
    BFix([i \in 1..(IF Len(a) < Len(b) THEN Len(b) ELSE Len(a)) |->
             Limb(a, i) + Limb(b, i)])

(* a - b for a >= b *)
BSub(a, b) ==
    LET n == Len(a)
        raw == [i \in 1..n |->
                   a[i] + (LimbBase - 1 - Limb(b, i)) + (IF i = 1 THEN 1 ELSE 0)]
    IN  BNorm(SubSeq(BCarry(raw, 1, 0), 1, n))

RECURSIVE ConvSum(_, _, _, _)
ConvSum(a, b, k, i) ==
    IF i > Len(a) \/ i > k THEN 0
    ELSE (IF k + 1 - i <= Len(b) THEN a[i] * b[k + 1 - i] ELSE 0)
             + ConvSum(a, b, k, i + 1)

BMul(a, b) ==
    IF a = <<>> \/ b = <<>> THEN <<>>
    ELSE BFix([k \in 1..Len(a) + Len(b) - 1 |-> ConvSum(a, b, k, 1)])

BPow2(k) ==
    [i \in 1..(k \div LimbBits + 1) |->
        IF i = k \div LimbBits + 1 THEN 2 ^ (k % LimbBits) ELSE 0]

BShl(b, k) == BMul(b, BPow2(k))

BShr(b, k) ==
    LET d == k \div LimbBits
        r == k % LimbBits
        n == Len(b) - d
    IN  IF n <= 0 THEN <<>>
        ELSE BNorm([i \in 1..n |->
                       (b[i + d] \div 2 ^ r)
                           + (Limb(b, i + d + 1) % 2 ^ r) * 2 ^ (LimbBits - r)])

BBit(b, i) == (Limb(b, i \div LimbBits + 1) \div 2 ^ (i % LimbBits)) % 2

BBitLen(b) ==
    IF b = <<>> THEN 0
    ELSE LimbBits * (Len(b) - 1)
             + (CHOOSE n \in 1..LimbBits :
                    2 ^ (n - 1) <= b[Len(b)] /\ b[Len(b)] < 2 ^ n)

BCmp(a, b) ==
    IF Len(a) # Len(b) THEN (IF Len(a) < Len(b) THEN -1 ELSE 1)
    ELSE IF a = b THEN 0
    ELSE LET i == CHOOSE i \in 1..Len(a) :
                      a[i] # b[i] /\ \A j \in i + 1..Len(a) : a[j] = b[j]
         IN  IF a[i] < b[i] THEN -1 ELSE 1

(* one step of the long division by d, whose highest limb is at least
   LimbBase / 2: the remainder so far followed by the next limb, divided by
   d; the quotient limb is at most 2 below its estimate from the highest
   limbs *)
BDivStep(d, rest, limb) ==
    LET t == BNorm(<<limb>> \o rest)
        n == Len(d)
        estimate == (Limb(t, n + 1) * LimbBase + Limb(t, n)) \div d[n]
        qhat == IF estimate < LimbBase THEN estimate ELSE LimbBase - 1
    IN  CHOOSE step \in
            {IF BCmp(p0, t) <= 0
             THEN [limb |-> qhat, rest |-> BSub(t, p0)]
             ELSE IF BCmp(p1, t) <= 0
                  THEN [limb |-> qhat - 1, rest |-> BSub(t, p1)]
                  ELSE [limb |-> qhat - 2,
                        rest |-> BSub(t, BMul(d, BFromInt(qhat - 2)))] :
                p0 \in {BMul(d, BFromInt(qhat))},
                p1 \in {BMul(d, BFromInt(IF qhat > 0 THEN qhat - 1 ELSE 0))}}
            : TRUE

RECURSIVE BDivLoop(_, _, _, _, _)
BDivLoop(n, d, i, q, rest) ==
    IF i = 0 THEN BNorm(q)
    ELSE CHOOSE v \in
        {BDivLoop(n, d, i - 1, <<step.limb>> \o q, step.rest) :
            step \in {BDivStep(d, rest, n[i])}} : TRUE

(* floor(n / d) for d > 0 *)
BDiv(n, d) ==
    CHOOSE q \in
        {BDivLoop(scaled_n, scaled_d, Len(scaled_n), <<>>, <<>>) :
            scaled_n \in {BShl(n, LimbBits - BBitLen(<<d[Len(d)]>>))},
            scaled_d \in {BShl(d, LimbBits - BBitLen(<<d[Len(d)]>>))}} : TRUE

(* Newton's iteration from above: the first x with (x + n / x) / 2 >= x is
   floor(sqrt(n)) *)
RECURSIVE BSqrtLoop(_, _)
BSqrtLoop(n, x) ==
    CHOOSE r \in
        {IF BCmp(next, x) >= 0 THEN x ELSE BSqrtLoop(n, next) :
            next \in {BShr(BAdd(x, BDiv(n, x)), 1)}} : TRUE

BSqrt(n) ==
    IF n = <<>> THEN <<>> ELSE BSqrtLoop(n, BPow2((BBitLen(n) + 1) \div 2))

(* binary64 values: sgn * man * 2^exp with 2^52 <= man < 2^53, or zero *)
F64Zero == [sgn |-> 0, man |-> <<>>, exp |-> 0]

(* round to nearest, ties to even, of sgn * (m + a fraction that is not 0
   when sticky) * 2^e *)
F64Round(sgn, m, e, sticky) ==
    IF m = <<>> THEN F64Zero
    ELSE LET len == BBitLen(m)
             shift == len - 53
         IN  IF shift <= 0
             THEN [sgn |-> sgn, man |-> BShl(m, -shift), exp |-> e + shift]
             ELSE LET q == BShr(m, shift)
                      guard == BBit(m, shift - 1) = 1
                      rest == sticky \/ BShl(BShr(m, shift - 1), shift - 1) # m
                      q2 == IF guard /\ (rest \/ BBit(q, 0) = 1)
                            THEN BAdd(q, <<1>>) ELSE q
                  IN  IF BBitLen(q2) = 54
                      THEN [sgn |-> sgn, man |-> BShr(q2, 1),
                            exp |-> e + shift + 1]
                      ELSE [sgn |-> sgn, man |-> q2, exp |-> e + shift]

F64FromInt(n) ==
    IF n = 0 THEN F64Zero
    ELSE CHOOSE v \in {F64Round(IF n < 0 THEN -1 ELSE 1, m, 0, FALSE) :
                          m \in {BFromInt(IF n < 0 THEN -n ELSE n)}} : TRUE

F64Neg(a) == [a EXCEPT !.sgn = -a.sgn]

F64Abs(a) == [a EXCEPT !.sgn = IF a.sgn = 0 THEN 0 ELSE 1]

F64Add(a, b) ==
    IF a.sgn = 0 THEN b
    ELSE IF b.sgn = 0 THEN a
    ELSE CHOOSE v \in
        {IF a.sgn = b.sgn THEN F64Round(a.sgn, BAdd(x, y), e, FALSE)
         ELSE IF BCmp(x, y) = 0 THEN F64Zero
         ELSE IF BCmp(x, y) > 0 THEN F64Round(a.sgn, BSub(x, y), e, FALSE)
         ELSE F64Round(b.sgn, BSub(y, x), e, FALSE) :
            e \in {IF a.exp < b.exp THEN a.exp ELSE b.exp},
            x \in {BShl(a.man, a.exp - (IF a.exp < b.exp THEN a.exp ELSE b.exp))},
            y \in {BShl(b.man, b.exp - (IF a.exp < b.exp THEN a.exp ELSE b.exp))}}
        : TRUE

F64Sub(a, b) == F64Add(a, F64Neg(b))

F64Mul(a, b) ==
    IF a.sgn = 0 \/ b.sgn = 0 THEN F64Zero
    ELSE CHOOSE v \in {F64Round(a.sgn * b.sgn, m, a.exp + b.exp, FALSE) :
                          m \in {BMul(a.man, b.man)}} : TRUE

(* a / b for b # 0 *)
F64Div(a, b) ==
    IF a.sgn = 0 THEN F64Zero
    ELSE CHOOSE v \in
        {F64Round(a.sgn * b.sgn, q, a.exp - b.exp - 56, BMul(q, b.man) # n) :
            n \in {BShl(a.man, 56)}, q \in {BDiv(BShl(a.man, 56), b.man)}}
        : TRUE

(* math.sqrt(a) for a >= 0 *)
F64Sqrt(a) ==
    IF a.sgn = 0 THEN F64Zero
    ELSE CHOOSE v \in
        {F64Round(1, r, (a.exp - k) \div 2, BMul(r, r) # BShl(a.man, k)) :
            k \in {IF a.exp % 2 = 0 THEN 58 ELSE 59},
            r \in {BSqrt(BShl(a.man, IF a.exp % 2 = 0 THEN 58 ELSE 59))}}
        : TRUE

F64Cmp(a, b) ==
    IF a.sgn # b.sgn THEN (IF a.sgn < b.sgn THEN -1 ELSE 1)
    ELSE IF a.sgn = 0 THEN 0
    ELSE IF a.exp # b.exp THEN (IF a.exp < b.exp THEN -a.sgn ELSE a.sgn)
    ELSE a.sgn * BCmp(a.man, b.man)

F64Lt(a, b) == F64Cmp(a, b) < 0

F64Le(a, b) == F64Cmp(a, b) <= 0

F64Gt(a, b) == F64Cmp(a, b) > 0

F64Ge(a, b) == F64Cmp(a, b) >= 0

(* float("num/den") for a decimal literal: the binary64 nearest to it *)
F64Of(num, den) == F64Div(F64FromInt(num), F64FromInt(den))

(* the prices of the binary64 model are given in tenths *)
PriceScale == 10

(* the float of a price given in tenths, as float("0.1") reads it *)
PriceOf(tenths) == F64Of(tenths, PriceScale)

(* sum() of CPython 3.11 over floats: the additions from left to right,
   each one rounded *)
RECURSIVE F64SumFrom(_, _, _)
F64SumFrom(s, i, acc) ==
    IF i > Len(s) THEN acc
    ELSE CHOOSE v \in {F64SumFrom(s, i + 1, t) : t \in {F64Add(acc, s[i])}}
             : TRUE

F64Sum(s) == F64SumFrom(s, 1, F64Zero)

RECURSIVE F64Insert(_, _)
F64Insert(sorted, x) ==
    IF sorted = <<>> THEN <<x>>
    ELSE IF F64Lt(x, Head(sorted)) THEN <<x>> \o sorted
         ELSE <<Head(sorted)>> \o F64Insert(Tail(sorted), x)

RECURSIVE F64Sorted(_)
F64Sorted(s) ==
    IF s = <<>> THEN <<>>
    ELSE F64Insert(F64Sorted(SubSeq(s, 1, Len(s) - 1)), s[Len(s)])

---------------------------------------------------------------------------
(* Sequence helpers: list comprehensions, dict insertion order, sorted() *)

RECURSIVE Dedup(_)
Dedup(s) ==
    IF s = <<>> THEN <<>>
    ELSE LET init == Dedup(SubSeq(s, 1, Len(s) - 1))
             last == s[Len(s)]
         IN  IF \E i \in 1..Len(init) : init[i] = last
             THEN init ELSE Append(init, last)

RECURSIVE Flatten(_)
Flatten(ss) == IF ss = <<>> THEN <<>> ELSE Head(ss) \o Flatten(Tail(ss))

Range(s) == {s[i] : i \in 1..Len(s)}

RECURSIVE RInsert(_, _)
RInsert(sorted, x) ==
    IF sorted = <<>> THEN <<x>>
    ELSE IF RLt(x, Head(sorted)) THEN <<x>> \o sorted
    ELSE <<Head(sorted)>> \o RInsert(Tail(sorted), x)

RECURSIVE RSorted(_)
RSorted(s) ==
    IF s = <<>> THEN <<>>
    ELSE RInsert(RSorted(SubSeq(s, 1, Len(s) - 1)), s[Len(s)])

RECURSIVE RMin(_)
RMin(s) ==
    IF Len(s) = 1 THEN s[1]
    ELSE LET m == RMin(Tail(s)) IN IF RLt(m, Head(s)) THEN m ELSE Head(s)

RECURSIVE RMax(_)
RMax(s) ==
    IF Len(s) = 1 THEN s[1]
    ELSE LET m == RMax(Tail(s)) IN IF RGt(m, Head(s)) THEN m ELSE Head(s)

---------------------------------------------------------------------------
(* variance.py: statistics primitives *)

calculate_statistics(prices) ==
    IF prices = <<>>
    THEN [mean |-> RZero, median |-> RZero, std_dev |-> Surd(1, RZero),
          min |-> RZero, max |-> RZero, range |-> RZero,
          cv |-> Surd(1, RZero)]
    ELSE
    LET n == Len(prices)
        sorted_prices == RSorted(prices)
        mean == RDiv(RSum(prices), RInt(n))
        median ==
            IF n % 2 = 0
            THEN RDiv(RAdd(sorted_prices[n \div 2], sorted_prices[n \div 2 + 1]),
                      RInt(2))
            ELSE sorted_prices[n \div 2 + 1]
        sq(p) == RMul(RSub(p, mean), RSub(p, mean))
        variance ==
            IF n > 1
            THEN RDiv(RSum([i \in 1..n |-> sq(prices[i])]), RInt(n - 1))
            ELSE RZero
        std_dev == Surd(1, variance)
        min_price == RMin(prices)
        max_price == RMax(prices)
        cv == IF RGt(mean, RZero)
              THEN Surd(1, RDiv(variance, RMul(mean, mean)))
              ELSE Surd(1, RZero)
    IN  [mean |-> mean, median |-> median, std_dev |-> std_dev,
         min |-> min_price, max |-> max_price,
         range |-> RSub(max_price, min_price), cv |-> cv]

(* calculate_statistics in binary64: the standard deviation and the
   coefficient of variation of a list whose mean has been computed *)
DeviationStatistics(prices, sorted_prices, mean, median) ==
    LET n == Len(prices)
    IN  CHOOSE out \in
            {[mean |-> mean, median |-> median, std_dev |-> std_dev,
              min |-> sorted_prices[1], max |-> sorted_prices[n],
              range |-> F64Sub(sorted_prices[n], sorted_prices[1]),
              cv |-> IF F64Gt(mean, F64Zero) THEN F64Div(std_dev, mean)
                     ELSE F64Zero] :
                std_dev \in
                    {IF n > 1
                     THEN F64Sqrt(F64Div(
                              F64Sum([i \in 1..n |->
                                         F64Mul(F64Sub(prices[i], mean),
                                                F64Sub(prices[i], mean))]),
                              F64FromInt(n - 1)))
                     ELSE F64Zero}} : TRUE

(* calculate_statistics on floats, every operation rounded as the
   interpreter rounds it *)
calculate_statistics_binary64(prices) ==
    IF prices = <<>>
    THEN [mean |-> F64Zero, median |-> F64Zero, std_dev |-> F64Zero,
          min |-> F64Zero, max |-> F64Zero, range |-> F64Zero,
          cv |-> F64Zero]
    ELSE
    LET n == Len(prices)
    IN  CHOOSE out \in
            {DeviationStatistics(prices, sorted_prices, mean,
                 IF n % 2 = 0
                 THEN F64Div(F64Add(sorted_prices[n \div 2],
                                    sorted_prices[n \div 2 + 1]),
                             F64FromInt(2))
                 ELSE sorted_prices[n \div 2 + 1]) :
                sorted_prices \in {F64Sorted(prices)},
                mean \in {F64Div(F64Sum(prices), F64FromInt(n))}} : TRUE

calculate_z_score(value, mean, std_dev) ==
    IF std_dev.sq.num = 0 THEN Surd(1, RZero)
    ELSE LET d == RSub(value, mean)
         IN  Surd(Sign(d.num) * std_dev.sgn, RDiv(RMul(d, d), std_dev.sq))

(* determine_severity with abs() left off the variance percentage *)
determine_severity_signed(z_score, variance_percentage) ==
    LET abs_z == IF z_score.none \/ z_score.sgn = 0
                 THEN Surd(1, RZero) ELSE Surd(1, z_score.sq)
        abs_var == variance_percentage
    IN  IF SurdAbsGe(abs_z, RInt(4)) \/ RGe(abs_var, RInt(50)) THEN "critical"
        ELSE IF SurdAbsGe(abs_z, RInt(3)) \/ RGe(abs_var, RInt(30)) THEN "high"
        ELSE IF SurdAbsGe(abs_z, RInt(2)) \/ RGe(abs_var, RInt(15)) THEN "medium"
        ELSE "low"

determine_severity(z_score, variance_percentage) ==
    LET abs_z == IF z_score.none \/ z_score.sgn = 0
                 THEN Surd(1, RZero) ELSE Surd(1, z_score.sq)
        abs_var == RAbs(variance_percentage)
    IN  IF SurdAbsGe(abs_z, RInt(4)) \/ RGe(abs_var, RInt(50)) THEN "critical"
        ELSE IF SurdAbsGe(abs_z, RInt(3)) \/ RGe(abs_var, RInt(30)) THEN "high"
        ELSE IF SurdAbsGe(abs_z, RInt(2)) \/ RGe(abs_var, RInt(15)) THEN "medium"
        ELSE "low"

---------------------------------------------------------------------------
(* variance.py: VarianceDetector *)

NoBase == ""

GlobalAvg == "global_avg"

(* the price list taken without the "if r.get('unit_price')" filter *)
PricedPricesUnfiltered(records) ==
    [i \in 1..Len(records) |-> RInt(records[i].unit_price)]

(* [r.get("unit_price", 0) for r in records if r.get("unit_price")] *)
PricedPrices(records) ==
    LET priced == SelectSeq(records, LAMBDA r : r.unit_price # 0)
    IN  [i \in 1..Len(priced) |-> RInt(priced[i].unit_price)]

(* the records of one key of a grouping dict, in input order *)
SkuRecords(data, sku) == SelectSeq(data, LAMBDA r : r.sku_id = sku)

MarketRecords(records, m) == SelectSeq(records, LAMBDA r : r.market_id = m)

(* the keys of a grouping dict, in insertion order *)
SkuKeys(data) == Dedup([i \in 1..Len(data) |-> data[i].sku_id])

MarketKeys(records) == Dedup([i \in 1..Len(records) |-> records[i].market_id])

(* region_avg_prices of one SKU: its keys in insertion order, and its values *)
RegionAvgKeys(records) ==
    SelectSeq(MarketKeys(records),
              LAMBDA m : PricedPrices(MarketRecords(records, m)) # <<>>)

RegionAvg(records, m) ==
    LET prices == PricedPrices(MarketRecords(records, m))
    IN  RDiv(RSum(prices), RInt(Len(prices)))

(* self.regional_adjustments.get(market_id, 1.0); the dict is the set of its
   <<key, value>> items *)
RegionalAdjustment(cfg, market_id) ==
    IF \E item \in cfg.regional_adjustments : item[1] = market_id
    THEN (CHOOSE item \in cfg.regional_adjustments : item[1] = market_id)[2]
    ELSE RInt(1)

(* one iteration of the loop over sku_prices.items(): the PricingVariance
   records it appends (or the exception raised by pct_var / adjustment), and
   the value it leaves in the local base_region_id *)
SkuVariance(cfg, records, sku_id, base_region_id) ==
    LET keys == RegionAvgKeys(records)
        use_base == base_region_id # NoBase /\ base_region_id \in Range(keys)
        all_prices == [i \in 1..Len(keys) |-> RegionAvg(records, keys[i])]
        base_price == IF use_base THEN RegionAvg(records, base_region_id)
                      ELSE RDiv(RSum(all_prices), RInt(Len(all_prices)))
        base_id == IF use_base THEN base_region_id ELSE GlobalAvg
        others == SelectSeq(keys, LAMBDA m : m # base_id)
        One(m) ==
            LET price == RegionAvg(records, m)
                absolute_var == RSub(price, base_price)
                pct_var == IF RGt(base_price, RZero)
                           THEN RMul(RDiv(absolute_var, base_price), RInt(100))
                           ELSE RZero
            IN  [sku_id |-> sku_id,
                 base_region_id |-> base_id,
                 base_price |-> base_price,
                 comparison_region_id |-> m,
                 comparison_price |-> price,
                 absolute_variance |-> absolute_var,
                 percentage_variance |-> pct_var,
                 normalized_variance |->
                     RDiv(pct_var, RegionalAdjustment(cfg, m))]
    IN  IF Len(MarketKeys(records)) < 2 \/ Len(keys) < 2
        THEN [out |-> <<>>, base |-> base_region_id]
        ELSE IF \E i \in 1..Len(others) :
                    RegionalAdjustment(cfg, others[i]).num = 0
        THEN [out |-> Raised(ZeroDivisionError), base |-> base_id]
        ELSE [out |-> [i \in 1..Len(others) |-> One(others[i])],
              base |-> base_id]

RECURSIVE RegionalLoop(_, _, _, _, _)
RegionalLoop(cfg, data, skus, i, base_region_id) ==
    IF i > Len(skus) THEN <<>>
    ELSE LET step == SkuVariance(cfg, SkuRecords(data, skus[i]), skus[i],
                                 base_region_id)
             rest == RegionalLoop(cfg, data, skus, i + 1, step.base)
         IN  IF IsRaised(step.out) THEN step.out
             ELSE IF IsRaised(rest) THEN rest
             ELSE step.out \o rest

calculate_regional_variance(cfg, data, base_region_id) ==
    RegionalLoop(cfg, data, SkuKeys(data), 1, base_region_id)

severity_order(sev) ==
    CASE sev = "critical" -> 0
      [] sev = "high" -> 1
      [] sev = "medium" -> 2
      [] sev = "low" -> 3

(* list.sort(key=...): a stable sort, here by insertion from the left *)
RECURSIVE SeverityInsert(_, _)
SeverityInsert(sorted, x) ==
    IF sorted = <<>> THEN <<x>>
    ELSE IF severity_order(x.severity) < severity_order(Head(sorted).severity)
         THEN <<x>> \o sorted
         ELSE <<Head(sorted)>> \o SeverityInsert(Tail(sorted), x)

(* a severity sort that does not keep the order of equal keys *)
RECURSIVE SortBySeverityUnstable(_)
SortBySeverityUnstable(s) ==
    IF s = <<>> THEN <<>>
    ELSE SeverityInsert(SortBySeverityUnstable(Tail(s)), Head(s))

RECURSIVE SortBySeverity(_)
SortBySeverity(s) ==
    IF s = <<>> THEN <<>>
    ELSE SeverityInsert(SortBySeverity(SubSeq(s, 1, Len(s) - 1)), s[Len(s)])

(* the test of detect_anomalies with the thresholds left out: every
   observation off the mean is flagged *)
IsAnomalousAnyDeviation(z_score, variance_pct, cfg) ==
    \/ z_score.sgn # 0
    \/ variance_pct.num # 0

(* the test "abs(z_score) >= z_score_threshold or abs(variance_pct) >=
   variance_threshold_pct" of detect_anomalies *)
IsAnomalous(z_score, variance_pct, cfg) ==
    \/ SurdAbsGe(z_score, cfg.z_score_threshold)
    \/ RGe(RAbs(variance_pct), cfg.variance_threshold_pct)

(* the type given to a flagged observation *)
ObservationType(z_score) ==
    IF z_score.sgn > 0 THEN "price_spike" ELSE "price_drop"

(* one iteration of the loop over sku_data.items() *)
SkuAnomalies(records, sku_id, cfg) ==
    LET prices == PricedPrices(records)
        stats == calculate_statistics(prices)
        Z(r) == calculate_z_score(RInt(r.unit_price), stats.mean, stats.std_dev)
        V(r) == IF RGt(stats.mean, RZero)
                THEN RMul(RDiv(RSub(RInt(r.unit_price), stats.mean), stats.mean),
                          RInt(100))
                ELSE RZero
        flagged == SelectSeq(records,
                       LAMBDA r : /\ ~(r.unit_price <= 0)
                                  /\ IsAnomalous(Z(r), V(r), cfg))
        Flag(r) ==
            [sku_id |-> sku_id,
             vendor_id |-> r.vendor_id,
             market_id |-> r.market_id,
             anomaly_type |-> ObservationType(Z(r)),
             severity |-> determine_severity(Z(r), V(r)),
             expected_price |-> stats.mean,
             actual_price |-> RInt(r.unit_price),
             variance_percentage |-> V(r),
             z_score |-> Z(r)]
    IN  IF Len(prices) < 2 THEN <<>>
        ELSE [i \in 1..Len(flagged) |-> Flag(flagged[i])]

ObservationAnomalies(data, cfg) ==
    LET skus == SkuKeys(data)
    IN  Flatten([i \in 1..Len(skus) |->
                    SkuAnomalies(SkuRecords(data, skus[i]), skus[i], cfg)])

(* the regional flag test without the severity filter *)
RegionalFlaggedAnySeverity(variance, cfg) ==
    RGe(RAbs(variance.percentage_variance), cfg.variance_threshold_pct)

(* whether a PricingVariance is turned into a regional_variance flag *)
RegionalFlagged(variance, cfg) ==
    /\ RGe(RAbs(variance.percentage_variance), cfg.variance_threshold_pct)
    /\ determine_severity(NoneZ, variance.percentage_variance)
           \in {"high", "critical"}

RegionalAnomalies(data, cfg) ==
    LET regional_variances == calculate_regional_variance(cfg, data, NoBase)
        kept == SelectSeq(regional_variances,
                          LAMBDA v : RegionalFlagged(v, cfg))
        Flag(v) ==
            [sku_id |-> v.sku_id,
             vendor_id |-> "",
             market_id |-> v.comparison_region_id,
             anomaly_type |-> "regional_variance",
             severity |-> determine_severity(NoneZ, v.percentage_variance),
             expected_price |-> v.base_price,
             actual_price |-> v.comparison_price,
             variance_percentage |-> v.percentage_variance,
             z_score |-> NoneZ]
    IN  [i \in 1..Len(kept) |-> Flag(kept[i])]

(* the anomalies list before its final sort *)
DiscoveredAnomalies(data, cfg) ==
    ObservationAnomalies(data, cfg) \o RegionalAnomalies(data, cfg)

(* the exception of calculate_regional_variance leaves detect_anomalies too *)
detect_anomalies(data, cfg) ==
    IF IsRaised(calculate_regional_variance(cfg, data, NoBase))
    THEN calculate_regional_variance(cfg, data, NoBase)
    ELSE SortBySeverity(DiscoveredAnomalies(data, cfg))

---------------------------------------------------------------------------
(* variance.py in binary64: detect_anomalies on float prices, every
   operation rounded as the interpreter rounds it *)

(* the float of a decimal literal given as a fraction *)
FloatOf(q) == F64Of(q.num, q.den)

(* the fields of the detector as floats *)
FloatDetector(cfg) ==
    [z_score_threshold |-> FloatOf(cfg.z_score_threshold),
     variance_threshold_pct |-> FloatOf(cfg.variance_threshold_pct),
     regional_adjustments |->
         {<<item[1], FloatOf(item[2])>> : item \in cfg.regional_adjustments}]

(* an Optional[float] *)
FloatNone == [none |-> TRUE, value |-> F64Zero]

FloatSome(x) == [none |-> FALSE, value |-> x]

calculate_z_score_binary64(value, mean, std_dev) ==
    IF std_dev.sgn = 0 THEN F64Zero
    ELSE F64Div(F64Sub(value, mean), std_dev)

determine_severity_binary64(z_score, variance_percentage) ==
    LET abs_z == IF z_score.none THEN F64Zero ELSE F64Abs(z_score.value)
        abs_var == F64Abs(variance_percentage)
        AtLeast(z, v) ==
            F64Ge(abs_z, F64FromInt(z)) \/ F64Ge(abs_var, F64FromInt(v))
    IN  IF AtLeast(4, 50) THEN "critical"
        ELSE IF AtLeast(3, 30) THEN "high"
        ELSE IF AtLeast(2, 15) THEN "medium"
        ELSE "low"

(* [r.get("unit_price", 0) for r in records if r.get("unit_price")], the
   unit_price of a record being given in tenths *)
FloatPrices(records) ==
    LET priced == SelectSeq(records, LAMBDA r : r.unit_price # 0)
    IN  <<>> \o [i \in 1..Len(priced) |-> PriceOf(priced[i].unit_price)]

(* the z_score and the variance_pct of one record of a SKU *)
FloatObservation(r, stats) ==
    CHOOSE o \in
        {[record |-> r, price |-> price,
          z_score |->
              calculate_z_score_binary64(price, stats.mean, stats.std_dev),
          variance_pct |->
              IF F64Gt(stats.mean, F64Zero)
              THEN F64Mul(F64Div(F64Sub(price, stats.mean), stats.mean),
                          F64FromInt(100))
              ELSE F64Zero] :
            price \in {PriceOf(r.unit_price)}} : TRUE

RECURSIVE FloatObservations(_, _, _, _)
FloatObservations(records, stats, i, acc) ==
    IF i > Len(records) THEN acc
    ELSE IF records[i].unit_price <= 0
         THEN FloatObservations(records, stats, i + 1, acc)
         ELSE CHOOSE all \in
                  {FloatObservations(records, stats, i + 1, Append(acc, o)) :
                      o \in {FloatObservation(records[i], stats)}} : TRUE

FloatIsAnomalous(o, cfg) ==
    \/ F64Ge(F64Abs(o.z_score), cfg.z_score_threshold)
    \/ F64Ge(F64Abs(o.variance_pct), cfg.variance_threshold_pct)

FloatFlags(observations, sku_id, stats, cfg) ==
    LET flagged == SelectSeq(observations,
                             LAMBDA o : FloatIsAnomalous(o, cfg))
    IN  [i \in 1..Len(flagged) |->
            [sku_id |-> sku_id,
             vendor_id |-> flagged[i].record.vendor_id,
             market_id |-> flagged[i].record.market_id,
             anomaly_type |-> IF F64Gt(flagged[i].z_score, F64Zero)
                              THEN "price_spike" ELSE "price_drop",
             severity |->
                 determine_severity_binary64(FloatSome(flagged[i].z_score),
                                             flagged[i].variance_pct),
             expected_price |-> stats.mean,
             actual_price |-> flagged[i].price,
             variance_percentage |-> flagged[i].variance_pct,
             z_score |-> FloatSome(flagged[i].z_score)]]

(* one iteration of the loop over sku_data.items() *)
FloatSkuAnomalies(records, sku_id, cfg) ==
    IF Len(SelectSeq(records, LAMBDA r : r.unit_price # 0)) < 2 THEN <<>>
    ELSE CHOOSE flags \in
             {<<>> \o FloatFlags(FloatObservations(records, stats, 1, <<>>),
                                 sku_id, stats, cfg) :
                 stats \in
                     {CHOOSE st \in
                          {calculate_statistics_binary64(prices) :
                              prices \in {FloatPrices(records)}} : TRUE}}
             : TRUE

FloatObservationAnomalies(data, cfg) ==
    LET skus == SkuKeys(data)
    IN  Flatten([i \in 1..Len(skus) |->
                    FloatSkuAnomalies(SkuRecords(data, skus[i]), skus[i],
                                      cfg)])

FloatRegionAvg(records, m) ==
    CHOOSE avg \in
        {F64Div(F64Sum(prices), F64FromInt(Len(prices))) :
            prices \in {FloatPrices(MarketRecords(records, m))}} : TRUE

FloatAdjustment(cfg, market_id) ==
    IF \E item \in cfg.regional_adjustments : item[1] = market_id
    THEN (CHOOSE item \in cfg.regional_adjustments : item[1] = market_id)[2]
    ELSE F64FromInt(1)

(* the PricingVariance of one comparison region *)
FloatVariance(cfg, sku_id, base_id, base_price, m, price) ==
    CHOOSE v \in
        {[sku_id |-> sku_id,
          base_region_id |-> base_id,
          base_price |-> base_price,
          comparison_region_id |-> m,
          comparison_price |-> price,
          absolute_variance |-> F64Sub(price, base_price),
          percentage_variance |-> pct_var,
          normalized_variance |-> F64Div(pct_var, FloatAdjustment(cfg, m))] :
            pct_var \in
                {IF F64Gt(base_price, F64Zero)
                 THEN F64Mul(F64Div(F64Sub(price, base_price), base_price),
                             F64FromInt(100))
                 ELSE F64Zero}} : TRUE

(* the PricingVariance records of one SKU whose region averages are known *)
FloatVariances(cfg, sku_id, keys, region_avg_prices, base_region_id) ==
    LET use_base == base_region_id # NoBase /\ base_region_id \in Range(keys)
        base_id == IF use_base THEN base_region_id ELSE GlobalAvg
        index(m) == CHOOSE i \in 1..Len(keys) : keys[i] = m
        others == SelectSeq(keys, LAMBDA m : m # base_id)
    IN  IF \E i \in 1..Len(others) :
               FloatAdjustment(cfg, others[i]).sgn = 0
        THEN [out |-> Raised(ZeroDivisionError), base |-> base_id]
        ELSE CHOOSE step \in
                 {[out |-> <<>> \o
                       [i \in 1..Len(others) |->
                           FloatVariance(cfg, sku_id, base_id, base_price,
                               others[i],
                               region_avg_prices[index(others[i])])],
                   base |-> base_id] :
                     base_price \in
                         {IF use_base
                          THEN region_avg_prices[index(base_region_id)]
                          ELSE F64Div(F64Sum(region_avg_prices),
                                      F64FromInt(Len(region_avg_prices)))}}
                 : TRUE

(* one iteration of the loop over sku_prices.items() *)
FloatSkuVariance(cfg, records, sku_id, base_region_id) ==
    LET keys == RegionAvgKeys(records)
    IN  IF Len(MarketKeys(records)) < 2 \/ Len(keys) < 2
        THEN [out |-> <<>>, base |-> base_region_id]
        ELSE CHOOSE step \in
                 {FloatVariances(cfg, sku_id, keys, region_avg_prices,
                                 base_region_id) :
                     region_avg_prices \in
                         {<<>> \o [i \in 1..Len(keys) |->
                                      FloatRegionAvg(records, keys[i])]}}
                 : TRUE

RECURSIVE FloatRegionalLoop(_, _, _, _, _)
FloatRegionalLoop(cfg, data, skus, i, base_region_id) ==
    IF i > Len(skus) THEN <<>>
    ELSE CHOOSE out \in
        {IF IsRaised(step.out) THEN step.out
         ELSE CHOOSE all \in
                  {IF IsRaised(rest) THEN rest ELSE step.out \o rest :
                      rest \in {FloatRegionalLoop(cfg, data, skus, i + 1,
                                                  step.base)}} : TRUE :
            step \in {FloatSkuVariance(cfg, SkuRecords(data, skus[i]),
                                       skus[i], base_region_id)}} : TRUE

calculate_regional_variance_binary64(cfg, data, base_region_id) ==
    FloatRegionalLoop(cfg, data, SkuKeys(data), 1, base_region_id)

FloatRegionalAnomalies(regional_variances, cfg) ==
    LET kept == SelectSeq(regional_variances,
                    LAMBDA v :
                        /\ F64Ge(F64Abs(v.percentage_variance),
                                 cfg.variance_threshold_pct)
                        /\ determine_severity_binary64(FloatNone,
                                                       v.percentage_variance)
                               \in {"high", "critical"})
    IN  [i \in 1..Len(kept) |->
            [sku_id |-> kept[i].sku_id,
             vendor_id |-> "",
             market_id |-> kept[i].comparison_region_id,
             anomaly_type |-> "regional_variance",
             severity |->
                 determine_severity_binary64(FloatNone,
                                             kept[i].percentage_variance),
             expected_price |-> kept[i].base_price,
             actual_price |-> kept[i].comparison_price,
             variance_percentage |-> kept[i].percentage_variance,
             z_score |-> FloatNone]]

(* detect_anomalies of a detector whose fields are floats *)
FloatDetect(data, cfg) ==
    CHOOSE out \in
        {IF IsRaised(regional_variances) THEN regional_variances
         ELSE SortBySeverity(
                  observed \o FloatRegionalAnomalies(regional_variances, cfg)) :
            observed \in {FloatObservationAnomalies(data, cfg)},
            regional_variances \in
                {calculate_regional_variance_binary64(cfg, data, NoBase)}}
        : TRUE

detect_anomalies_binary64(data, detector_fields) ==
    CHOOSE out \in
        {FloatDetect(data, cfg) : cfg \in {FloatDetector(detector_fields)}}
        : TRUE

(* floor(n * 10^k / d) for n >= 0 and d > 0, by long division *)
RECURSIVE LongDivision(_, _, _, _)
LongDivision(quotient, remainder, d, k) ==
    IF k = 0 THEN quotient
    ELSE LongDivision(quotient * 10 + (remainder * 10) \div d,
                      (remainder * 10) % d, d, k - 1)

FloorScaled(n, d, k) == LongDivision(n \div d, n % d, d, k)

(* the largest r in lo..hi with r * r <= x *)
RECURSIVE ISqrtBetween(_, _, _)
ISqrtBetween(x, lo, hi) ==
    IF lo >= hi THEN lo
    ELSE LET mid == (lo + hi + 1) \div 2
         IN  IF mid * mid <= x THEN ISqrtBetween(x, mid, hi)
             ELSE ISqrtBetween(x, lo, mid - 1)

ISqrt(x) == ISqrtBetween(x, 0, 46340)

(* round(x, 2) of a float: the nearest hundredth (a tie, which Python breaks
   on the binary value, goes up) *)
Round2(x) == Rat((2 * x.num * 100 + x.den) \div (2 * x.den), 100)

(* round(z, 4) of a non-negative square root z = sqrt(sq): with
   t = floor(2 * 10^4 * z) = ISqrt(floor(4 * 10^8 * sq)), the nearest
   ten-thousandth is floor((t + 1) / 2) / 10^4 *)
Round4(z) ==
    Rat((ISqrt(FloorScaled(4 * z.sq.num, z.sq.den, 8)) + 1) \div 2, 10000)

(* len(set(r.get(field) for r in records)) *)
RegionCount(records) ==
    Cardinality({records[i].market_id : i \in 1..Len(records)})

DistinctVendors(records) ==
    Cardinality({records[i].vendor_id : i \in 1..Len(records)})

(* high_variance.sort(key=lambda x: x["coefficient_of_variation"],
   reverse=True): stable, descending on the rounded value *)
RECURSIVE CvInsert(_, _)
CvInsert(sorted, x) ==
    IF sorted = <<>> THEN <<x>>
    ELSE IF RGt(x.coefficient_of_variation,
                Head(sorted).coefficient_of_variation)
         THEN <<x>> \o sorted
         ELSE <<Head(sorted)>> \o CvInsert(Tail(sorted), x)

RECURSIVE SortByCvDesc(_)
SortByCvDesc(s) ==
    IF s = <<>> THEN <<>>
    ELSE CvInsert(SortByCvDesc(SubSeq(s, 1, Len(s) - 1)), s[Len(s)])

(* the summary dict of one SKU of get_high_variance_skus *)
HighVarianceSummary(data, sku_id) ==
    LET records == SkuRecords(data, sku_id)
        stats == calculate_statistics(PricedPrices(records))
    IN  [sku_id |-> sku_id,
         vendor_count |-> DistinctVendors(records),
         region_count |-> RegionCount(records),
         mean_price |-> Round2(stats.mean),
         min_price |-> Round2(stats.min),
         max_price |-> Round2(stats.max),
         price_range |-> Round2(stats.range),
         coefficient_of_variation |-> Round4(stats.cv),
         price_spread_pct |->
             IF RGt(stats.mean, RZero)
             THEN Round2(RMul(RDiv(stats.range, stats.mean), RInt(100)))
             ELSE RZero]

(* the test of get_high_variance_skus on one SKU: at least 2 priced
   observations and stats["cv"] >= threshold_cv, cv being non-negative *)
IsHighVariance(data, sku_id, threshold_cv) ==
    LET prices == PricedPrices(SkuRecords(data, sku_id))
    IN  /\ ~(Len(prices) < 2)
        /\ SurdAbsGe(calculate_statistics(prices).cv, threshold_cv)

get_high_variance_skus(data, threshold_cv) ==
    LET kept == SelectSeq(SkuKeys(data),
                    LAMBDA sku_id : IsHighVariance(data, sku_id, threshold_cv))
    IN  SortByCvDesc([i \in 1..Len(kept) |->
                         HighVarianceSummary(data, kept[i])])

---------------------------------------------------------------------------
(* proximity.py.  Distances are carried to 0.01 km and math.exp to three
   decimals; the sums, averages and comparisons of the code are then exact.
   float("inf") is the rational with denominator 0, which the
   cross-multiplying comparisons place above every finite value. *)

EARTH_RADIUS_KM == 6371

Inf == [num |-> 1, den |-> 0]

ExpScale == 1000

(* the power series of exp on fixed-point numbers: x is ExpScale times the
   argument, term the current term, n the index of the next one *)
RECURSIVE ExpSeries(_, _, _)
ExpSeries(x, term, n) ==
    IF term = 0 THEN 0
    ELSE term + ExpSeries(x, (term * x) \div (n * ExpScale), n + 1)

(* math.exp(-y) for a rational y >= 0 *)
ExpNeg(y) ==
    LET x == (y.num * ExpScale) \div y.den
    IN  Rat((ExpScale * ExpScale) \div ExpSeries(x, ExpScale, 1), ExpScale)

(* haversine_distance for two points of the equator (latitude 0, the value
   the records default to): the arc R * |lon2 - lon1| in radians, the
   shorter way round, with pi taken as 355/113 *)
haversine_distance(lat1, lon1, lat2, lon2) ==
    LET d == Abs(lon2 - lon1) % 360
        delta_lon == IF d > 180 THEN 360 - d ELSE d
    IN  Rat((EARTH_RADIUS_KM * 355 * delta_lon * 100) \div (113 * 180), 100)

(* the score without its final max(0.0, min(100.0, score)) *)
calculate_proximity_score_unclamped(distance_km, max_distance_km, decay_factor) ==
    IF RLe(distance_km, RZero) THEN RInt(100)
    ELSE IF RGe(distance_km, max_distance_km) THEN RZero
    ELSE RMul(RInt(100),
              ExpNeg(RMul(decay_factor, RDiv(distance_km, max_distance_km))))

calculate_proximity_score(distance_km, max_distance_km, decay_factor) ==
    IF RLe(distance_km, RZero) THEN RInt(100)
    ELSE IF RGe(distance_km, max_distance_km) THEN RZero
    ELSE LET normalized_distance == RDiv(distance_km, max_distance_km)
             score == RMul(RInt(100),
                           ExpNeg(RMul(decay_factor, normalized_distance)))
         IN  IF RLt(score, RZero) THEN RZero
             ELSE IF RGt(score, RInt(100)) THEN RInt(100) ELSE score

estimate_travel_time(distance_km, average_speed_kmh) ==
    IF RLe(distance_km, RZero) THEN RZero
    ELSE IF average_speed_kmh.num = 0 THEN ZeroDivisionError
    ELSE RDiv(distance_km, average_speed_kmh)

(* base_cost_per_km = 0.005 and min_factor = 1.0, the defaults *)
calculate_shipping_cost_factor(distance_km) ==
    RAdd(RInt(1), RMul(distance_km, Rat(5, 1000)))

calculate_proximity(cfg, market, vendor_id, dc) ==
    LET distance == haversine_distance(market.latitude, market.longitude,
                                       dc.latitude, dc.longitude)
        travel_time == estimate_travel_time(distance, cfg.average_speed_kmh)
    IN  IF IsErrorReport(travel_time) THEN travel_time ELSE
        [vendor_id |-> vendor_id,
         center_id |-> dc.center_id,
         market_id |-> market.market_id,
         distance_km |-> distance,
         proximity_score |->
             calculate_proximity_score(distance, cfg.max_distance_km,
                                       cfg.decay_factor),
         travel_time_estimate_hours |-> travel_time,
         shipping_cost_factor |-> calculate_shipping_cost_factor(distance)]

(* proximity_scores.sort(key=lambda x: x.distance_km): stable, ascending *)
RECURSIVE DistanceInsert(_, _)
DistanceInsert(sorted, x) ==
    IF sorted = <<>> THEN <<x>>
    ELSE IF RLt(x.distance_km, Head(sorted).distance_km) THEN <<x>> \o sorted
    ELSE <<Head(sorted)>> \o DistanceInsert(Tail(sorted), x)

(* the scores left in the order the centers were given *)
SortByDistanceKeepOrder(s) == s

RECURSIVE SortByDistance(_)
SortByDistance(s) ==
    IF s = <<>> THEN <<>>
    ELSE DistanceInsert(SortByDistance(SubSeq(s, 1, Len(s) - 1)), s[Len(s)])

(* the result for a vendor that owns none of the centers, with 0.0 where the
   code puts float("inf") *)
NoCoverageZeroDistance(market, vendor) ==
    [vendor_id |-> vendor.vendor_id,
     market_id |-> market.market_id,
     nearest_center_distance_km |-> RZero,
     average_distance_km |-> RZero,
     coverage_score |-> RZero,
     center_count |-> 0,
     centers |-> <<>>]

(* the result for a vendor that owns none of the centers *)
NoCoverage(market, vendor) ==
    [vendor_id |-> vendor.vendor_id,
     market_id |-> market.market_id,
     nearest_center_distance_km |-> Inf,
     average_distance_km |-> Inf,
     coverage_score |-> RZero,
     center_count |-> 0,
     centers |-> <<>>]

(* the weighted sum left without its division by weight_sum *)
WeightedScoreUnnormalized(proximity_scores) ==
    RSum([i \in 1..Len(proximity_scores) |->
             RMul(proximity_scores[i].proximity_score, Rat(1, i))])

(* weights[i] = 1.0 / (i + 1) for the 0-based rank i, here 1-based *)
WeightedScore(proximity_scores) ==
    LET weights == [i \in 1..Len(proximity_scores) |-> Rat(1, i)]
        weight_sum == RSum(weights)
    IN  RDiv(RSum([i \in 1..Len(proximity_scores) |->
                      RMul(proximity_scores[i].proximity_score, weights[i])]),
             weight_sum)

analyze_vendor_coverage(cfg, market, vendor, centers) ==
    LET owned == SelectSeq(centers, LAMBDA dc : dc.vendor_id = vendor.vendor_id)
        proximity_scores ==
            SortByDistance([i \in 1..Len(owned) |->
                calculate_proximity(cfg, market, vendor.vendor_id, owned[i])])
        distances == [i \in 1..Len(proximity_scores) |->
                         proximity_scores[i].distance_km]
    IN  IF owned = <<>> THEN NoCoverage(market, vendor)
        ELSE [vendor_id |-> vendor.vendor_id,
              market_id |-> market.market_id,
              nearest_center_distance_km |-> RMin(distances),
              average_distance_km |->
                  RDiv(RSum(distances), RInt(Len(distances))),
              coverage_score |-> WeightedScore(proximity_scores),
              center_count |-> Len(proximity_scores),
              centers |-> proximity_scores]

(* keeping the vendors by their score instead of their center count *)
KeptPositiveScore(cov) == RGt(cov.coverage_score, RZero)

(* the test that keeps a vendor in analyze_market_vendors *)
Kept(cov) == cov.center_count > 0

(* coverages.sort(key=lambda x: x.coverage_score, reverse=True): stable,
   descending *)
RECURSIVE CoverageInsert(_, _)
CoverageInsert(sorted, x) ==
    IF sorted = <<>> THEN <<x>>
    ELSE IF RGt(x.coverage_score, Head(sorted).coverage_score)
         THEN <<x>> \o sorted
         ELSE <<Head(sorted)>> \o CoverageInsert(Tail(sorted), x)

RECURSIVE SortByCoverageDesc(_)
SortByCoverageDesc(s) ==
    IF s = <<>> THEN <<>>
    ELSE CoverageInsert(SortByCoverageDesc(SubSeq(s, 1, Len(s) - 1)), s[Len(s)])

analyze_market_vendors(cfg, market, vendors, centers) ==
    LET all == [i \in 1..Len(vendors) |->
                   analyze_vendor_coverage(cfg, market, vendors[i], centers)]
    IN  SortByCoverageDesc(SelectSeq(all, Kept))

(* gaps.sort(key=lambda x: x["coverage_score"]): stable, ascending *)
RECURSIVE GapInsert(_, _)
GapInsert(sorted, x) ==
    IF sorted = <<>> THEN <<x>>
    ELSE IF RLt(x.coverage_score, Head(sorted).coverage_score)
         THEN <<x>> \o sorted
         ELSE <<Head(sorted)>> \o GapInsert(Tail(sorted), x)

RECURSIVE SortGaps(_)
SortGaps(s) ==
    IF s = <<>> THEN <<>>
    ELSE GapInsert(SortGaps(SubSeq(s, 1, Len(s) - 1)), s[Len(s)])

gap_severity(coverage_score) ==
    IF RLt(coverage_score, RInt(10)) THEN "critical"
    ELSE IF RLt(coverage_score, RInt(20)) THEN "high"
    ELSE "medium"

(* a pair counted as a gap already when its score equals the minimum *)
IsGapInclusive(cov, min_coverage_score) ==
    RLe(cov.coverage_score, min_coverage_score)

(* the test that makes a (market, vendor) pair a gap *)
IsGap(cov, min_coverage_score) ==
    RLt(cov.coverage_score, min_coverage_score)

(* the pairs in loop order: markets outside, vendors inside *)
GapPairs(markets, vendors) ==
    [k \in 1..(Len(markets) * Len(vendors)) |->
        [market |-> markets[((k - 1) \div Len(vendors)) + 1],
         vendor |-> vendors[((k - 1) % Len(vendors)) + 1]]]

find_coverage_gaps(cfg, markets, vendors, centers, min_coverage_score) ==
    LET pairs == GapPairs(markets, vendors)
        coverages == [k \in 1..Len(pairs) |->
                         analyze_vendor_coverage(cfg, pairs[k].market,
                                                 pairs[k].vendor, centers)]
        found == SelectSeq(coverages,
                           LAMBDA cov : IsGap(cov, min_coverage_score))
    IN  SortGaps([k \in 1..Len(found) |->
            [market_id |-> found[k].market_id,
             vendor_id |-> found[k].vendor_id,
             coverage_score |-> found[k].coverage_score,
             nearest_center_distance_km |->
                 found[k].nearest_center_distance_km,
             center_count |-> found[k].center_count,
             gap_severity |-> gap_severity(found[k].coverage_score)]])

---------------------------------------------------------------------------
(* benchmarking.py *)

(* the (market_id, sku_id) keys of a grouping dict, in insertion order *)
GroupKeys(data) ==
    Dedup([i \in 1..Len(data) |->
              [market_id |-> data[i].market_id, sku_id |-> data[i].sku_id]])

GroupRecords(data, key) ==
    SelectSeq(data, LAMBDA r : r.market_id = key.market_id
                               /\ r.sku_id = key.sku_id)

(* the trend computed whatever the sign of the historical mean *)
PriceTrendUnguarded(mean, hist_prices) ==
    IF hist_prices = <<>> THEN [trend |-> "stable", trend_pct |-> RZero]
    ELSE LET hist_mean == RDiv(RSum(hist_prices), RInt(Len(hist_prices)))
             trend_pct == RMul(RDiv(RSub(mean, hist_mean), hist_mean),
                               RInt(100))
         IN  [trend |-> IF RGt(trend_pct, RInt(2)) THEN "increasing"
                        ELSE IF RLt(trend_pct, RInt(-2))
                             THEN "decreasing" ELSE "stable",
              trend_pct |-> trend_pct]

(* the trend against the mean of the historical prices of the key *)
PriceTrend(mean, hist_prices) ==
    IF hist_prices = <<>> THEN [trend |-> "stable", trend_pct |-> RZero]
    ELSE LET hist_mean == RDiv(RSum(hist_prices), RInt(Len(hist_prices)))
         IN  IF RGt(hist_mean, RZero)
             THEN LET trend_pct == RMul(RDiv(RSub(mean, hist_mean), hist_mean),
                                        RInt(100))
                  IN  [trend |-> IF RGt(trend_pct, RInt(2)) THEN "increasing"
                                 ELSE IF RLt(trend_pct, RInt(-2))
                                      THEN "decreasing" ELSE "stable",
                       trend_pct |-> trend_pct]
             ELSE [trend |-> "stable", trend_pct |-> RZero]

(* len(set(r.get("vendor_id") for r in records if r.get("vendor_id"))) *)
VendorCount(records) ==
    Cardinality({records[i].vendor_id : i \in 1..Len(records)} \ {""})

(* the benchmark of one group; its prices are not empty *)
GroupBenchmark(key, records, historical) ==
    LET prices == PricedPrices(records)
        sorted_prices == RSorted(prices)
        n == Len(prices)
        mean == RDiv(RSum(prices), RInt(n))
        median ==
            IF n % 2 = 0
            THEN RDiv(RAdd(sorted_prices[n \div 2], sorted_prices[n \div 2 + 1]),
                      RInt(2))
            ELSE sorted_prices[n \div 2 + 1]
        sq(p) == RMul(RSub(p, mean), RSub(p, mean))
        std_dev ==
            IF n > 1
            THEN Surd(1, RDiv(RSum([i \in 1..n |-> sq(prices[i])]), RInt(n - 1)))
            ELSE Surd(1, RZero)
        trend == PriceTrend(mean, PricedPrices(GroupRecords(historical, key)))
    IN  [sku_id |-> key.sku_id,
         market_id |-> key.market_id,
         avg_price |-> mean,
         min_price |-> RMin(prices),
         max_price |-> RMax(prices),
         median_price |-> median,
         std_deviation |-> std_dev,
         sample_size |-> n,
         vendor_count |-> VendorCount(records),
         price_trend |-> trend.trend,
         trend_percentage |-> trend.trend_pct]

(* a group of exactly min_sample_size prices skipped as well *)
LargeEnoughStrict(prices, min_sample_size) == Len(prices) > min_sample_size

(* the size test: len(prices) < self.min_sample_size skips the group *)
LargeEnough(prices, min_sample_size) == Len(prices) >= min_sample_size

create_sku_benchmarks(cfg, data, historical) ==
    LET keys == SelectSeq(GroupKeys(data),
                    LAMBDA key : LargeEnough(PricedPrices(GroupRecords(data, key)),
                                             cfg.min_sample_size))
    IN  [k \in 1..Len(keys) |->
            GroupBenchmark(keys[k], GroupRecords(data, keys[k]), historical)]

RMinOf(a, b) == IF RLt(b, a) THEN b ELSE a

RMaxOf(a, b) == IF RGt(b, a) THEN b ELSE a

(* the score without the inversion that makes a lower price score higher *)
calculate_competitiveness_score_uninverted(vendor_price, min_price, max_price, avg_price) ==
    IF max_price = min_price THEN RInt(50)
    ELSE RMaxOf(RZero, RMinOf(RInt(100),
             RMul(RDiv(RSub(vendor_price, min_price),
                       RSub(max_price, min_price)), RInt(100))))

(* the division by avg_price raises ZeroDivisionError when avg_price is 0 *)
calculate_competitiveness_score(vendor_price, min_price, max_price, avg_price) ==
    IF max_price = min_price THEN RInt(50)
    ELSE IF RLt(vendor_price, avg_price) /\ avg_price = RZero
    THEN ZeroDivisionError
    ELSE LET price_range == RSub(max_price, min_price)
             normalized_position ==
                 RDiv(RSub(vendor_price, min_price), price_range)
             score == RMul(RSub(RInt(1), normalized_position), RInt(100))
             below_avg_bonus ==
                 RMul(RDiv(RSub(avg_price, vendor_price), avg_price), RInt(20))
             with_bonus ==
                 IF RLt(vendor_price, avg_price)
                 THEN RMinOf(RInt(100), RAdd(score, below_avg_bonus))
                 ELSE score
         IN  RMaxOf(RZero, RMinOf(RInt(100), with_bonus))

(* benchmark_lookup: the positions of the benchmarks with a sku_id, the last
   one of a key winning *)
BenchmarkLookup(bms, market_id, sku_id) ==
    {k \in 1..Len(bms) :
        /\ bms[k].sku_id # ""
        /\ bms[k].market_id = market_id /\ bms[k].sku_id = sku_id
        /\ \A j \in (k + 1)..Len(bms) :
               ~(bms[j].market_id = market_id /\ bms[j].sku_id = sku_id)}

(* a vendor record compared whatever its price *)
ComparedAnyPrice(record, bms) ==
    BenchmarkLookup(bms, record.market_id, record.sku_id) # {}

(* the two tests a vendor record passes to be compared *)
Compared(record, bms) ==
    /\ record.unit_price > 0
    /\ BenchmarkLookup(bms, record.market_id, record.sku_id) # {}

PricePosition(variance_pct) ==
    IF RLt(variance_pct, RInt(-5)) THEN "below_market"
    ELSE IF RGt(variance_pct, RInt(5)) THEN "above_market"
    ELSE "at_market"

Comparison(record, benchmark) ==
    LET vendor_price == RInt(record.unit_price)
        variance_pct ==
            IF RGt(benchmark.avg_price, RZero)
            THEN RMul(RDiv(RSub(vendor_price, benchmark.avg_price),
                           benchmark.avg_price), RInt(100))
            ELSE RZero
        price_range == RSub(benchmark.max_price, benchmark.min_price)
        percentile ==
            IF RGt(price_range, RZero)
            THEN RMul(RDiv(RSub(vendor_price, benchmark.min_price),
                           price_range), RInt(100))
            ELSE RInt(50)
    IN  [vendor_id |-> record.vendor_id,
         market_id |-> record.market_id,
         sku_id |-> record.sku_id,
         vendor_price |-> vendor_price,
         benchmark_avg |-> benchmark.avg_price,
         benchmark_min |-> benchmark.min_price,
         benchmark_max |-> benchmark.max_price,
         price_position |-> PricePosition(variance_pct),
         variance_from_avg_pct |-> variance_pct,
         percentile_rank |-> percentile,
         competitiveness_score |->
             calculate_competitiveness_score(vendor_price,
                 benchmark.min_price, benchmark.max_price,
                 benchmark.avg_price)]

compare_vendor_to_benchmark(records, bms) ==
    LET kept == SelectSeq(records, LAMBDA r : Compared(r, bms))
    IN  [i \in 1..Len(kept) |->
            Comparison(kept[i],
                bms[CHOOSE k \in BenchmarkLookup(bms, kept[i].market_id,
                                                 kept[i].sku_id) : TRUE])]

(* market_avg_scores.sort(key=..., reverse=True): stable, descending *)
RECURSIVE MarketScoreInsert(_, _)
MarketScoreInsert(sorted, x) ==
    IF sorted = <<>> THEN <<x>>
    ELSE IF RGt(x.avg_competitiveness, Head(sorted).avg_competitiveness)
         THEN <<x>> \o sorted
         ELSE <<Head(sorted)>> \o MarketScoreInsert(Tail(sorted), x)

RECURSIVE SortMarketScores(_)
SortMarketScores(s) ==
    IF s = <<>> THEN <<>>
    ELSE MarketScoreInsert(SortMarketScores(SubSeq(s, 1, Len(s) - 1)), s[Len(s)])

(* opportunities.sort(key=..., reverse=True): stable, descending *)
RECURSIVE OpportunityInsert(_, _)
OpportunityInsert(sorted, x) ==
    IF sorted = <<>> THEN <<x>>
    ELSE IF RGt(x.potential_reduction_pct, Head(sorted).potential_reduction_pct)
         THEN <<x>> \o sorted
         ELSE <<Head(sorted)>> \o OpportunityInsert(Tail(sorted), x)

RECURSIVE SortOpportunities(_)
SortOpportunities(s) ==
    IF s = <<>> THEN <<>>
    ELSE OpportunityInsert(SortOpportunities(SubSeq(s, 1, Len(s) - 1)), s[Len(s)])

(* list[:n] *)
Take(s, n) == SubSeq(s, 1, IF Len(s) < n THEN Len(s) ELSE n)

(* the opportunities handed back without the [:10] *)
TopOpportunitiesUncut(opportunities) == opportunities

TopOpportunities(opportunities) == Take(opportunities, 10)

MarketAvgScores(cs) ==
    LET mids == Dedup([i \in 1..Len(cs) |-> cs[i].market_id])
        scores(mid) ==
            LET of == SelectSeq(cs, LAMBDA c : c.market_id = mid)
            IN  [i \in 1..Len(of) |-> of[i].competitiveness_score]
    IN  [k \in 1..Len(mids) |->
            [market_id |-> mids[k],
             avg_competitiveness |->
                 RDiv(RSum(scores(mids[k])), RInt(Len(scores(mids[k])))),
             sku_count |-> Len(scores(mids[k]))]]

Opportunities(cs) ==
    LET above == SelectSeq(cs, LAMBDA c : c.price_position = "above_market")
    IN  [i \in 1..Len(above) |->
            [sku_id |-> above[i].sku_id,
             market_id |-> above[i].market_id,
             current_price |-> above[i].vendor_price,
             benchmark_avg |-> above[i].benchmark_avg,
             potential_reduction_pct |-> above[i].variance_from_avg_pct]]

PositionCount(cs, position) ==
    Len(SelectSeq(cs, LAMBDA c : c.price_position = position))

(* the rounded averages and percentages of the summary are left out *)
get_vendor_competitiveness_summary(cs) ==
    IF cs = <<>>
    THEN [vendor_id |-> "",
          total_skus |-> 0,
          position_breakdown |-> <<>>,
          best_markets |-> <<>>,
          improvement_opportunities |-> <<>>]
    ELSE [vendor_id |-> cs[1].vendor_id,
          total_skus |-> Len(cs),
          position_breakdown |->
              [below_market |-> PositionCount(cs, "below_market"),
               at_market |-> PositionCount(cs, "at_market"),
               above_market |-> PositionCount(cs, "above_market")],
          best_markets |-> Take(SortMarketScores(MarketAvgScores(cs)), 3),
          improvement_opportunities |->
              TopOpportunities(SortOpportunities(Opportunities(cs)))]

(* create_category_benchmarks, with category_mapping left at None *)

(* the (market_id, category_id) keys of the grouping dict, in insertion
   order *)
CategoryKeys(data) ==
    Dedup([i \in 1..Len(data) |->
              [market_id |-> data[i].market_id,
               category_id |-> data[i].category_id]])

CategoryRecords(data, key) ==
    SelectSeq(data, LAMBDA r : r.market_id = key.market_id
                               /\ r.category_id = key.category_id)

(* the keys of sku_prices: every sku_id of the group, priced or not *)
SkuIds(records) == Dedup([i \in 1..Len(records) |-> records[i].sku_id])

(* the margins of the SKUs with two prices or more and a positive minimum *)
SkuMargins(records) ==
    LET prices(sku) == PricedPrices(SkuRecords(records, sku))
        skus == SelectSeq(SkuIds(records),
                    LAMBDA sku : /\ Len(prices(sku)) >= 2
                                 /\ RGt(RMin(prices(sku)), RZero))
    IN  [k \in 1..Len(skus) |->
            RMul(RDiv(RSub(RMax(prices(skus[k])), RMin(prices(skus[k]))),
                      RMin(prices(skus[k]))),
                 RInt(100))]

(* the keys of vendor_sku_count: the vendor ids that are not empty *)
VendorIds(records) ==
    Dedup(SelectSeq([i \in 1..Len(records) |-> records[i].vendor_id],
                    LAMBDA v : v # ""))

(* vendor_sku_count[vendor_id]: one more for every record of the vendor *)
VendorSkuCount(records, vendor_id) ==
    Len(SelectSeq(records, LAMBDA r : r.vendor_id = vendor_id))

(* sorted(..., key=lambda x: x["sku_count"], reverse=True): stable *)
RECURSIVE SkuCountInsert(_, _)
SkuCountInsert(sorted, x) ==
    IF sorted = <<>> THEN <<x>>
    ELSE IF x.sku_count > Head(sorted).sku_count
         THEN <<x>> \o sorted
         ELSE <<Head(sorted)>> \o SkuCountInsert(Tail(sorted), x)

RECURSIVE SortBySkuCountDesc(_)
SortBySkuCountDesc(s) ==
    IF s = <<>> THEN <<>>
    ELSE SkuCountInsert(SortBySkuCountDesc(SubSeq(s, 1, Len(s) - 1)),
                        s[Len(s)])

TopVendors(records) ==
    LET vendors == VendorIds(records)
    IN  Take(SortBySkuCountDesc(
                 [k \in 1..Len(vendors) |->
                     [vendor_id |-> vendors[k],
                      vendor_name |-> vendors[k],
                      sku_count |-> VendorSkuCount(records, vendors[k])]]),
             5)

(* the CategoryBenchmark of one group; its prices are not empty *)
CategoryBenchmark(key, records) ==
    LET prices == PricedPrices(records)
        sorted_prices == RSorted(prices)
        n == Len(prices)
        median ==
            IF n % 2 = 0
            THEN RDiv(RAdd(sorted_prices[n \div 2], sorted_prices[n \div 2 + 1]),
                      RInt(2))
            ELSE sorted_prices[n \div 2 + 1]
        sku_margins == SkuMargins(records)
    IN  [category_id |-> key.category_id,
         category_name |-> key.category_id,
         market_id |-> key.market_id,
         region_name |-> key.market_id,
         sku_count |-> Len(SkuIds(records)),
         vendor_count |-> Len(VendorIds(records)),
         avg_price |-> RDiv(RSum(prices), RInt(n)),
         median_price |-> median,
         price_range_low |-> RMin(prices),
         price_range_high |-> RMax(prices),
         avg_margin_potential_pct |->
             IF sku_margins = <<>> THEN RZero
             ELSE RDiv(RSum(sku_margins), RInt(Len(sku_margins))),
         top_vendors |-> TopVendors(records)]

create_category_benchmarks(data) ==
    LET keys == SelectSeq(CategoryKeys(data),
                    LAMBDA key :
                        PricedPrices(CategoryRecords(data, key)) # <<>>)
    IN  [k \in 1..Len(keys) |->
            CategoryBenchmark(keys[k], CategoryRecords(data, keys[k]))]

---------------------------------------------------------------------------
(* api_connector.py: RateLimiter *)

(* min() of an empty list *)
ValueError == [error |-> "ValueError"]

RateLimiter(max_requests, window_seconds) ==
    [max_requests |-> max_requests, window_seconds |-> window_seconds,
     requests |-> <<>>]

(* self.requests after "remove old requests outside the window" *)
InWindow(requests, window_start) ==
    SelectSeq(requests, LAMBDA t : t > window_start)

SeqMin(s) == CHOOSE v \in Range(s) : \A w \in Range(s) : v <= w

(* the append and return True at the end of acquire() *)
Grant(self, now) ==
    [outcome |-> "returned",
     self |-> [self EXCEPT !.requests = Append(self.requests, now)],
     wait_time |-> 0]

(* one pass through the body of acquire() with time.time() = now, up to its
   return, its exception or its time.sleep(wait_time) *)
acquire(self, now) ==
    LET window_start == now - self.window_seconds
        requests == InWindow(self.requests, window_start)
        kept == [self EXCEPT !.requests = requests]
    IN  IF Len(requests) >= self.max_requests
        THEN IF requests = <<>>
             THEN [outcome |-> "raised", self |-> kept, wait_time |-> 0,
                   exception |-> ValueError]
             ELSE LET oldest_request == SeqMin(requests)
                      wait_time == oldest_request + self.window_seconds - now
                  IN  IF wait_time > 0
                      THEN [outcome |-> "sleeping", self |-> kept,
                            wait_time |-> wait_time]
                      ELSE Grant(kept, now)
        ELSE Grant(kept, now)

---------------------------------------------------------------------------
(* api_connector.py: APIConnector *)

(* FetchResult(success=True, endpoint=config.url) *)
FetchResult ==
    [success |-> TRUE, records_fetched |-> 0, records_valid |-> 0,
     records_invalid |-> 0, errors |-> <<>>, warnings |-> <<>>,
     fetched_data |-> <<>>, api_response |-> [success |-> TRUE]]

(* what fetch() returns for one request: APIResponse.success, the records
   of the body as the validator judges them (TRUE: valid), and the
   next_cursor of the body (0: none) *)
APIResponse(success, records, next_cursor) ==
    [success |-> success, records |-> records, next_cursor |-> next_cursor]

(* the positions of the records of a page that are valid, or invalid *)
RecordsJudged(records, is_valid) ==
    SelectSeq([i \in 1..Len(records) |-> i],
              LAMBDA i : records[i] = is_valid)

(* fetch_vendor_pricing and fetch_sku_products on the answer to request
   number request: the FetchResult of one page *)
fetch_vendor_pricing(api_response, request) ==
    IF ~api_response.success
    THEN [FetchResult EXCEPT
             !.success = FALSE,
             !.errors = <<[type |-> "api_error", request |-> request,
                           record_index |-> -1]>>,
             !.api_response = api_response]
    ELSE IF api_response.records = <<>>
    THEN [FetchResult EXCEPT
             !.warnings = <<[type |-> "empty_response", request |-> request]>>,
             !.api_response = api_response]
    ELSE LET valid == RecordsJudged(api_response.records, TRUE)
             invalid == RecordsJudged(api_response.records, FALSE)
         IN  [FetchResult EXCEPT
                 !.success = ~(Len(invalid) > 0 /\ Len(valid) = 0),
                 !.records_fetched = Len(api_response.records),
                 !.records_valid = Len(valid),
                 !.records_invalid = Len(invalid),
                 !.fetched_data =
                     [k \in 1..Len(valid) |->
                         [request |-> request, record_index |-> valid[k] - 1]],
                 !.errors =
                     [k \in 1..Len(invalid) |->
                         [type |-> "validation", request |-> request,
                          record_index |-> invalid[k] - 1]],
                 !.api_response = api_response]

(* "Set pagination parameter" *)
PageParams(config, params, page_index) ==
    IF config.pagination_type = "offset"
    THEN [params EXCEPT !.offset = page_index * config.page_size,
                        !.limit = config.page_size]
    ELSE IF config.pagination_type = "page"
    THEN [params EXCEPT !.page = page_index + 1,
                        !.per_page = config.page_size]
    ELSE params

(* "Combine results" *)
Combine(combined, page_result) ==
    [combined EXCEPT
        !.records_fetched = @ + page_result.records_fetched,
        !.records_valid = @ + page_result.records_valid,
        !.records_invalid = @ + page_result.records_invalid,
        !.fetched_data = @ \o page_result.fetched_data,
        !.errors = @ \o page_result.errors,
        !.warnings = @ \o page_result.warnings]

(* the first break of the loop, with the test of the page length left out *)
StopsPagingOnFailure(page_result, page_size) ==
    ~page_result.success

(* the first break of the loop: "Check if we should continue" *)
StopsPaging(page_result, page_size) ==
    ~page_result.success \/ page_result.records_fetched < page_size

(* the second break: cursor pagination and no next_cursor in the body *)
CursorEnds(config, page_result) ==
    /\ config.pagination_type = "cursor"
    /\ page_result.api_response.next_cursor = 0

(* the two statements after the loop *)
Completed(combined) ==
    IF combined.records_invalid > 0 /\ combined.records_valid = 0
    THEN [combined EXCEPT !.success = FALSE]
    ELSE combined

---------------------------------------------------------------------------
(* Inputs *)

(* no RateLimiter constructed yet *)
NoLimiter == RateLimiter(-1, 0)

MaxRequests == {0, 1, 2}

WindowSeconds == {1, 2}

(* how long after the end of time.sleep() the call goes on *)
Oversleep == {0, 1}

(* no fetch_paginated call yet *)
NoEndpoint == [pagination_type |-> "none", page_size |-> 0, max_pages |-> 0]

(* params = None: no query parameter set (-1: key absent) *)
NoParams ==
    [offset |-> -1, limit |-> -1, page |-> -1, per_page |-> -1, cursor |-> -1]

NoFetchResult == [FetchResult EXCEPT !.success = FALSE]

(* APIEndpointConfig.pagination_type, "none" for None *)
PaginationTypes == {"offset", "page", "cursor", "none"}

PageSizes == {1, 2}

(* the max_pages argument of fetch_paginated *)
PageLimits == {0, 1, 2, 3}

PageRecordLists ==
    UNION {[1..n -> BOOLEAN] : n \in 0..MaxPageRecords}

(* the answers of the endpoint to request number request: a failure (HTTP
   error, timeout, connection error), or a body with records, with or
   without a next_cursor *)
Answers(request) ==
    {APIResponse(FALSE, <<>>, 0)}
        \cup {APIResponse(TRUE, records, next_cursor) :
                 records \in PageRecordLists, next_cursor \in {0, request}}

(* the pricing observations the ingestion side can hand over; a unit_price
   of 0 is a record whose price is missing or zero *)
Observations ==
    { [sku_id |-> "SKU-A", vendor_id |-> "V-1", market_id |-> "MKT-1", unit_price |-> 10],
      [sku_id |-> "SKU-A", vendor_id |-> "V-1", market_id |-> "MKT-2", unit_price |-> 40],
      [sku_id |-> "SKU-A", vendor_id |-> "V-2", market_id |-> "MKT-2", unit_price |-> 0],
      [sku_id |-> "SKU-B", vendor_id |-> "V-1", market_id |-> "MKT-2", unit_price |-> 10],
      [sku_id |-> "SKU-B", vendor_id |-> "V-2", market_id |-> "MKT-3", unit_price |-> 40],
      [sku_id |-> "SKU-B", vendor_id |-> "V-3", market_id |-> "MKT-3", unit_price |-> 15] }

Markets == {o.market_id : o \in Observations}

Skus == {o.sku_id : o \in Observations}

BaseArgs == {NoBase} \cup Markets

DefaultDetector ==
    [z_score_threshold |-> RInt(2), variance_threshold_pct |-> RInt(15),
     regional_adjustments |-> {}]

Detectors ==
    { DefaultDetector,
      [DefaultDetector EXCEPT !.z_score_threshold = RInt(1),
                              !.variance_threshold_pct = RInt(50)],
      [DefaultDetector EXCEPT !.z_score_threshold = RInt(0),
                              !.variance_threshold_pct = RInt(0)] }

SeverityZ ==
    {NoneZ} \cup {Surd(s, RInt(q)) : s \in {-1, 1}, q \in {0, 1, 3, 4, 8, 9, 15, 16, 25}}

SeverityV ==
    {RInt(v) : v \in {-60, -50, -49, -30, -29, -15, -14, 0, 14, 15, 29, 30, 49, 50, 60}}


DefaultAnalyzer ==
    [max_distance_km |-> RInt(500), decay_factor |-> RInt(2),
     average_speed_kmh |-> RInt(60)]

(* markets and distribution centers lie on the equator, one degree of
   longitude (111.19 km) apart *)
MarketRecordSet ==
    { [market_id |-> "MKT-1", latitude |-> 0, longitude |-> 0],
      [market_id |-> "MKT-2", latitude |-> 0, longitude |-> 2] }

VendorList ==
    << [vendor_id |-> "V-1"], [vendor_id |-> "V-2"], [vendor_id |-> "V-3"] >>

CenterRecords ==
    { [center_id |-> "DC-1", vendor_id |-> "V-1", latitude |-> 0, longitude |-> 0],
      [center_id |-> "DC-2", vendor_id |-> "V-1", latitude |-> 0, longitude |-> 1],
      [center_id |-> "DC-3", vendor_id |-> "V-1", latitude |-> 0, longitude |-> 3],
      [center_id |-> "DC-4", vendor_id |-> "V-2", latitude |-> 0, longitude |-> 1],
      [center_id |-> "DC-5", vendor_id |-> "V-2", latitude |-> 0, longitude |-> 6],
      [center_id |-> "DC-6", vendor_id |-> "V-2", latitude |-> 0, longitude |-> -1] }

NoArgs == [market |-> "none", vendor |-> "none"]

NoResult == "none"

(* arguments of the distance functions: distances on both sides of 0 and
   of the maximum, and the values a caller can configure *)
ScoreDistances == {RInt(d) : d \in {-10, 0, 1, 50, 99, 100, 250, 499, 500, 1000}}

MaxDistances == {RInt(500), RInt(100), RInt(0), RInt(-100)}

DecayFactors == {RInt(2), RInt(1), RInt(0), RInt(-1)}

(* points handed to calculate_proximity: on the equator, with longitudes
   inside and outside [-180, 180] *)
ProximityPoints ==
    {[latitude |-> 0, longitude |-> lon] : lon \in {0, 1, 180, 181, 361, -359}}

(* the pairs of points no more than a few degrees apart *)
ProximityPairs ==
    {p \in [market : ProximityPoints, center : ProximityPoints] :
        Abs(p.market.longitude - p.center.longitude) % 360
            \in (0..9) \cup (351..359)}

NoPoint == [latitude |-> 0, longitude |-> 0]

NoScoreArgs ==
    [distance_km |-> RZero, max_distance_km |-> RZero,
     decay_factor |-> RZero, average_speed_kmh |-> RZero,
     market |-> NoPoint, center |-> NoPoint,
     vendor_price |-> RZero, min_price |-> RZero, max_price |-> RZero,
     avg_price |-> RZero, prices |-> <<>>,
     value |-> RZero, mean |-> RZero, std_dev |-> Surd(1, RZero)]

(* prices handed to calculate_competitiveness_score *)
PriceValues == {RInt(p) : p \in {-100, -1, 0, 50, 100, 150}}

DefaultBenchmarker == [default_period_days |-> 30, min_sample_size |-> 3]

Benchmarkers ==
    {[DefaultBenchmarker EXCEPT !.min_sample_size = n] : n \in {3, 2, 1}}

(* current pricing records; a unit_price of 0 is a missing or zero price *)
BenchObservations ==
    { [sku_id |-> "SKU-1", vendor_id |-> "V-1", market_id |-> "MKT-1", unit_price |-> 100],
      [sku_id |-> "SKU-1", vendor_id |-> "V-2", market_id |-> "MKT-1", unit_price |-> 105],
      [sku_id |-> "SKU-1", vendor_id |-> "V-3", market_id |-> "MKT-1", unit_price |-> 95],
      [sku_id |-> "SKU-1", vendor_id |-> "V-4", market_id |-> "MKT-1", unit_price |-> 0],
      [sku_id |-> "SKU-1", vendor_id |-> "V-1", market_id |-> "MKT-2", unit_price |-> 120] }

(* pricing records with category information: a vendor quoting one SKU
   twice, six vendors in one category, one record without a price and a
   second category *)
CategoryRecord(vendor_id, sku_id, category_id, unit_price) ==
    [sku_id |-> sku_id, vendor_id |-> vendor_id, market_id |-> "MKT-1",
     category_id |-> category_id, unit_price |-> unit_price]

CategoryObservations ==
    { CategoryRecord("V-1", "SKU-1", "CAT-A", 100),
      CategoryRecord("V-1", "SKU-1", "CAT-A", 110),
      CategoryRecord("V-2", "SKU-2", "CAT-A", 100),
      CategoryRecord("V-3", "SKU-2", "CAT-A", 120),
      CategoryRecord("V-4", "SKU-1", "CAT-A", 90),
      CategoryRecord("V-5", "SKU-1", "CAT-A", 95),
      CategoryRecord("V-2", "SKU-3", "CAT-B", 95),
      CategoryRecord("V-6", "SKU-2", "CAT-A", 0) }

PricingRecord(sku_id, vendor_id, market_id, unit_price) ==
    [sku_id |-> sku_id, vendor_id |-> vendor_id, market_id |-> market_id,
     unit_price |-> unit_price]

(* arguments of calculate_z_score, in tenths: values on the mean and above
   it, standard deviations of 0 and 0.2 *)
ZValues == {3, 5}

ZMeans == {3}

ZStdDevs == {0, 2}

(* records whose unit_price is given in tenths: a SKU quoted at 0.1 by three
   vendors and at 0.3 by a fourth, and a SKU with one priced observation *)
UniformObservations ==
    { PricingRecord("SKU-U", "V-1", "MKT-1", 1),
      PricingRecord("SKU-U", "V-2", "MKT-2", 1),
      PricingRecord("SKU-U", "V-3", "MKT-1", 1),
      PricingRecord("SKU-U", "V-4", "MKT-2", 3),
      PricingRecord("SKU-S", "V-1", "MKT-1", 5) }

(* thresholds: the defaults, and 0.5 with 1.0 *)
(* detectors at, above and below the default thresholds *)
ThresholdDetectors ==
    { DefaultDetector,
      [DefaultDetector EXCEPT !.z_score_threshold = Rat(5, 2),
                              !.variance_threshold_pct = RInt(20)],
      [DefaultDetector EXCEPT !.z_score_threshold = Rat(3, 2)] }

ThresholdPrices == {100, 110, 300}

ThresholdVendors == <<"V-1", "V-2", "V-3", "V-4", "V-5", "V-6", "V-7">>

(* the i-th observation of SKU-T: one vendor each, markets alternating *)
ThresholdRecord(i, unit_price) ==
    PricingRecord("SKU-T", ThresholdVendors[i],
                  IF i % 2 = 1 THEN "MKT-1" ELSE "MKT-2", unit_price)

ZScoreDetectors ==
    { DefaultDetector,
      [DefaultDetector EXCEPT !.z_score_threshold = Rat(1, 2),
                              !.variance_threshold_pct = RInt(1)] }

HistoricalRecord(market_id, unit_price) ==
    [sku_id |-> "SKU-1", vendor_id |-> "V-1", market_id |-> market_id,
     unit_price |-> unit_price]

(* historical_data: absent, lower, about equal, higher, unpriced, and a
   mean that is not positive *)
HistoricalLists ==
    { <<>>,
      <<HistoricalRecord("MKT-1", 90), HistoricalRecord("MKT-2", 200)>>,
      <<HistoricalRecord("MKT-1", 98), HistoricalRecord("MKT-1", 100)>>,
      <<HistoricalRecord("MKT-1", 125)>>,
      <<HistoricalRecord("MKT-1", 0)>>,
      <<HistoricalRecord("MKT-1", -50), HistoricalRecord("MKT-1", 20)>> }

VendorRecord(market_id, sku_id, unit_price) ==
    [sku_id |-> sku_id, vendor_id |-> "V-9", market_id |-> market_id,
     unit_price |-> unit_price]

(* vendor_pricing: prices at, inside, below and above the benchmark range,
   a missing price, and keys without a benchmark *)
VendorPricingLists ==
    { <<VendorRecord("MKT-1", "SKU-1", 100), VendorRecord("MKT-1", "SKU-1", 0),
        VendorRecord("MKT-2", "SKU-1", 120)>>,
      <<VendorRecord("MKT-1", "SKU-1", 130), VendorRecord("MKT-3", "SKU-1", 100),
        VendorRecord("MKT-1", "SKU-1", 80)>>,
      <<VendorRecord("MKT-1", "SKU-2", 100), VendorRecord("MKT-1", "SKU-1", 104),
        VendorRecord("MKT-1", "SKU-1", 96)>> }

(* a pricing list of four markets, two quotes each *)
SummaryPricing ==
    << [sku_id |-> "SKU-1", vendor_id |-> "V-1", market_id |-> "MKT-1", unit_price |-> 80],
       [sku_id |-> "SKU-1", vendor_id |-> "V-2", market_id |-> "MKT-1", unit_price |-> 120],
       [sku_id |-> "SKU-1", vendor_id |-> "V-1", market_id |-> "MKT-2", unit_price |-> 100],
       [sku_id |-> "SKU-1", vendor_id |-> "V-2", market_id |-> "MKT-2", unit_price |-> 150],
       [sku_id |-> "SKU-1", vendor_id |-> "V-1", market_id |-> "MKT-3", unit_price |-> 120],
       [sku_id |-> "SKU-1", vendor_id |-> "V-2", market_id |-> "MKT-3", unit_price |-> 200],
       [sku_id |-> "SKU-1", vendor_id |-> "V-1", market_id |-> "MKT-4", unit_price |-> 150],
       [sku_id |-> "SKU-1", vendor_id |-> "V-2", market_id |-> "MKT-4", unit_price |-> 250] >>

SummaryMarkets == <<"MKT-1", "MKT-2", "MKT-3", "MKT-4">>

(* the vendor quotes a low or a high price *)
FeedPrices == {100, 250}

(* the vendor's records go round the markets *)
NextFeedMarket == SummaryMarkets[(Len(vendor_pricing) % Len(SummaryMarkets)) + 1]

NoSummary == [total_skus |-> -1]

(* detectors built with regional_adjustment_factors: none, a factor of 1.1
   and a factor of 0 for MKT-2 *)
AdjustedDetectors ==
    { DefaultDetector,
      [DefaultDetector EXCEPT !.regional_adjustments = {<<"MKT-2", Rat(11, 10)>>}],
      [DefaultDetector EXCEPT !.regional_adjustments = {<<"MKT-2", RZero>>}] }

(* pricing_data lists around the zero divisors: no record, a single sample,
   equal prices, a price of 0, and two and three priced markets *)
DegenerateInputs ==
    { <<>>,
      <<PricingRecord("SKU-A", "V-1", "MKT-1", 10)>>,
      <<PricingRecord("SKU-A", "V-1", "MKT-1", 10),
        PricingRecord("SKU-A", "V-2", "MKT-1", 10)>>,
      <<PricingRecord("SKU-A", "V-1", "MKT-1", 0),
        PricingRecord("SKU-A", "V-2", "MKT-2", 0)>>,
      <<PricingRecord("SKU-A", "V-1", "MKT-1", 10),
        PricingRecord("SKU-A", "V-2", "MKT-2", 10)>>,
      <<PricingRecord("SKU-A", "V-1", "MKT-1", 10),
        PricingRecord("SKU-A", "V-1", "MKT-2", 40),
        PricingRecord("SKU-A", "V-1", "MKT-3", 40)>> }

AverageSpeeds == {RInt(60), RInt(0)}

TravelDistances == {RInt(0), RInt(100)}

(* prices of a benchmark with a zero or a positive minimum *)
DegeneratePrices == {RInt(0), RInt(100)}

(* pricing records of two SKUs whose coefficients of variation differ
   (0.46596 for SKU-X, 0.46605 for SKU-Y) and round to the same 0.4660 *)
CvObservations ==
    { PricingRecord("SKU-X", "V-1", "MKT-1", 58),
      PricingRecord("SKU-X", "V-2", "MKT-2", 115),
      PricingRecord("SKU-Y", "V-1", "MKT-1", 59),
      PricingRecord("SKU-Y", "V-2", "MKT-1", 117),
      PricingRecord("SKU-Y", "V-3", "MKT-2", 0) }

(* threshold_cv: the default 0.2, 0.466, 0.5 and 0 *)
CvThresholds == {Rat(1, 5), Rat(233, 500), Rat(1, 2), RZero}

(* values of str(uuid.uuid4()): two stand for the 2^122 of the code *)
Uuids == {"uuid-1", "uuid-2"}

NoRun == [op |-> "none", input |-> <<>>, out |-> <<>>]

(* two pricing snapshots: one market with one outlier (one anomaly, one
   benchmark), and two markets with close prices (two regional variances) *)
RunSnapshots ==
    { <<PricingRecord("SKU-A", "V-1", "MKT-1", 100),
        PricingRecord("SKU-A", "V-2", "MKT-1", 100),
        PricingRecord("SKU-A", "V-3", "MKT-1", 130)>>,
      <<PricingRecord("SKU-A", "V-1", "MKT-1", 10),
        PricingRecord("SKU-A", "V-2", "MKT-2", 12)>> }

(* the vendor's own quotes compared with the benchmarks of a snapshot *)
RunVendorPricing ==
    <<PricingRecord("SKU-A", "V-1", "MKT-1", 105),
      PricingRecord("SKU-A", "V-1", "MKT-2", 45)>>

(* prices handed to calculate_statistics, in tenths: -0.4, 0.0, 0.1, 0.3
   and 1.0 *)
StatPrices == {-4, 0, 1, 3, 10}

(* the price lists of successive calls: the empty list, and the list of the
   call before with one more price *)
PriceLists ==
    {<<>>} \cup {Append(score_in.prices, p) :
                    p \in IF Len(score_in.prices) < MaxPrices
                          THEN StatPrices ELSE {}}

MarketList ==
    << [market_id |-> "MKT-1", latitude |-> 0, longitude |-> 0],
       [market_id |-> "MKT-2", latitude |-> 0, longitude |-> 2] >>

(* min_coverage_score: the default 30.0, and the two ends of the score range *)
MinCoverageScores == {RInt(30), RInt(0), RInt(100)}

---------------------------------------------------------------------------
(* Actions *)

NoCall == [z |-> NoneZ, v |-> RZero]

AddRecord(o) ==
    /\ Len(pricing_data) < MaxRecords
    /\ pricing_data' = Append(pricing_data, o)
    /\ last_op' = "none"
    /\ base_arg' = NoBase
    /\ variances' = <<>>
    /\ anomalies' = <<>>
    /\ cv_threshold' = RZero
    /\ high_variance' = <<>>
    /\ UNCHANGED <<ingestion_vars, run_vars, benchmark_vars, score_vars, detector, severity_vars, proximity_vars>>

CalculateRegionalVariance(b) ==
    /\ variances' = calculate_regional_variance(detector, pricing_data, b)
    /\ base_arg' = b
    /\ last_op' = "calculate_regional_variance"
    /\ anomalies' = <<>>
    /\ cv_threshold' = RZero
    /\ high_variance' = <<>>
    /\ UNCHANGED <<ingestion_vars, run_vars, benchmark_vars, score_vars, pricing_data, detector, severity_vars, proximity_vars>>

DetectAnomalies ==
    /\ anomalies' = detect_anomalies(pricing_data, detector)
    /\ cv_threshold' = RZero
    /\ high_variance' = <<>>
    /\ last_op' = "detect_anomalies"
    /\ base_arg' = NoBase
    /\ variances' = <<>>
    /\ UNCHANGED <<ingestion_vars, run_vars, benchmark_vars, score_vars, pricing_data, detector, severity_vars, proximity_vars>>

DetermineSeverity(z, v) ==
    /\ sev_in' = [z |-> z, v |-> v]
    /\ sev_out' = determine_severity(z, v)
    /\ UNCHANGED <<ingestion_vars, run_vars, benchmark_vars, score_vars, variance_vars, proximity_vars>>


AddCenter(dc) ==
    /\ Len(distribution_centers) < MaxCenters
    /\ distribution_centers' = Append(distribution_centers, dc)
    /\ prox_op' = "none"
    /\ prox_args' = NoArgs
    /\ coverage' = NoResult
    /\ market_coverages' = <<>>
    /\ gap_threshold' = RZero
    /\ gaps' = <<>>
    /\ UNCHANGED <<ingestion_vars, run_vars, benchmark_vars, score_vars, analyzer, variance_vars, severity_vars>>

AnalyzeVendorCoverage(market, vendor) ==
    /\ coverage' = analyze_vendor_coverage(analyzer, market, vendor,
                                           distribution_centers)
    /\ prox_op' = "analyze_vendor_coverage"
    /\ prox_args' = [market |-> market, vendor |-> vendor]
    /\ market_coverages' = <<>>
    /\ gap_threshold' = RZero
    /\ gaps' = <<>>
    /\ UNCHANGED <<ingestion_vars, run_vars, benchmark_vars, score_vars, analyzer, distribution_centers, variance_vars, severity_vars>>

AnalyzeMarketVendors(market) ==
    /\ market_coverages' = analyze_market_vendors(analyzer, market, VendorList,
                                                  distribution_centers)
    /\ prox_op' = "analyze_market_vendors"
    /\ prox_args' = [market |-> market, vendor |-> "none"]
    /\ coverage' = NoResult
    /\ gap_threshold' = RZero
    /\ gaps' = <<>>
    /\ UNCHANGED <<ingestion_vars, run_vars, benchmark_vars, score_vars, analyzer, distribution_centers, variance_vars, severity_vars>>

FindCoverageGaps(min_coverage_score) ==
    /\ gaps' = find_coverage_gaps(analyzer, MarketList, VendorList,
                                  distribution_centers, min_coverage_score)
    /\ gap_threshold' = min_coverage_score
    /\ prox_op' = "find_coverage_gaps"
    /\ prox_args' = NoArgs
    /\ coverage' = NoResult
    /\ market_coverages' = <<>>
    /\ UNCHANGED <<ingestion_vars, run_vars, benchmark_vars, score_vars, analyzer, distribution_centers, variance_vars, severity_vars>>

CalculateProximityScore(distance_km, max_distance_km, decay_factor) ==
    /\ score_op' = "calculate_proximity_score"
    /\ score_in' = [NoScoreArgs EXCEPT !.distance_km = distance_km,
                                       !.max_distance_km = max_distance_km,
                                       !.decay_factor = decay_factor]
    /\ score_out' = calculate_proximity_score(distance_km, max_distance_km,
                                              decay_factor)
    /\ UNCHANGED <<ingestion_vars, run_vars, benchmark_vars, variance_vars, severity_vars, proximity_vars>>

EstimateTravelTime(distance_km, average_speed_kmh) ==
    /\ score_op' = "estimate_travel_time"
    /\ score_in' = [NoScoreArgs EXCEPT !.distance_km = distance_km,
                                       !.average_speed_kmh = average_speed_kmh]
    /\ score_out' = estimate_travel_time(distance_km, average_speed_kmh)
    /\ UNCHANGED <<ingestion_vars, run_vars, benchmark_vars, variance_vars, severity_vars, proximity_vars>>

CalculateProximity(market, center) ==
    /\ score_op' = "calculate_proximity"
    /\ score_in' = [NoScoreArgs EXCEPT !.market = market, !.center = center]
    /\ score_out' =
           calculate_proximity(analyzer,
               [market_id |-> "MKT-1", latitude |-> market.latitude,
                longitude |-> market.longitude],
               "V-1",
               [center_id |-> "DC-1", vendor_id |-> "V-1",
                latitude |-> center.latitude, longitude |-> center.longitude])
    /\ UNCHANGED <<ingestion_vars, run_vars, benchmark_vars, variance_vars, severity_vars, proximity_vars>>

CalculateShippingCostFactor(distance_km) ==
    /\ score_op' = "calculate_shipping_cost_factor"
    /\ score_in' = [NoScoreArgs EXCEPT !.distance_km = distance_km]
    /\ score_out' = calculate_shipping_cost_factor(distance_km)
    /\ UNCHANGED <<ingestion_vars, run_vars, benchmark_vars, variance_vars, severity_vars, proximity_vars>>

AddBenchRecord(o) ==
    /\ Len(bench_data) < MaxBenchRecords
    /\ bench_data' = Append(bench_data, o)
    /\ bench_op' = "none"
    /\ historical_data' = <<>>
    /\ benchmarks' = <<>>
    /\ vendor_pricing' = <<>>
    /\ comparisons' = <<>>
    /\ summary' = NoSummary
    /\ UNCHANGED <<ingestion_vars, run_vars, benchmarker, score_vars, variance_vars, severity_vars,
                   proximity_vars>>

CreateSkuBenchmarks(historical) ==
    /\ benchmarks' = create_sku_benchmarks(benchmarker, bench_data, historical)
    /\ historical_data' = historical
    /\ bench_op' = "create_sku_benchmarks"
    /\ vendor_pricing' = <<>>
    /\ comparisons' = <<>>
    /\ summary' = NoSummary
    /\ UNCHANGED <<ingestion_vars, run_vars, benchmarker, bench_data, score_vars, variance_vars,
                   severity_vars, proximity_vars>>

CompareVendorToBenchmark(records) ==
    /\ comparisons' = compare_vendor_to_benchmark(records, benchmarks)
    /\ vendor_pricing' = records
    /\ bench_op' = "compare_vendor_to_benchmark"
    /\ summary' = NoSummary
    /\ UNCHANGED <<ingestion_vars, run_vars, benchmarker, bench_data, historical_data, benchmarks,
                   score_vars, variance_vars, severity_vars, proximity_vars>>

CalculateCompetitivenessScore(vendor_price, min_price, max_price, avg_price) ==
    /\ score_op' = "calculate_competitiveness_score"
    /\ score_in' = [NoScoreArgs EXCEPT !.vendor_price = vendor_price,
                                       !.min_price = min_price,
                                       !.max_price = max_price,
                                       !.avg_price = avg_price]
    /\ score_out' = calculate_competitiveness_score(vendor_price, min_price,
                                                    max_price, avg_price)
    /\ UNCHANGED <<ingestion_vars, run_vars, benchmark_vars, variance_vars, severity_vars, proximity_vars>>

LoadBenchData(data) ==
    /\ bench_data' = data
    /\ bench_op' = "none"
    /\ historical_data' = <<>>
    /\ benchmarks' = <<>>
    /\ vendor_pricing' = <<>>
    /\ comparisons' = <<>>
    /\ summary' = NoSummary
    /\ UNCHANGED <<ingestion_vars, run_vars, benchmarker, score_vars, variance_vars, severity_vars,
                   proximity_vars>>

AddVendorRecord(market_id, unit_price) ==
    /\ Len(vendor_pricing) < MaxFeed
    /\ vendor_pricing' =
           Append(vendor_pricing, VendorRecord(market_id, "SKU-1", unit_price))
    /\ bench_op' = "none"
    /\ comparisons' = <<>>
    /\ summary' = NoSummary
    /\ UNCHANGED <<ingestion_vars, run_vars, benchmarker, bench_data, historical_data, benchmarks,
                   score_vars, variance_vars, severity_vars, proximity_vars>>

GetVendorCompetitivenessSummary ==
    /\ summary' = get_vendor_competitiveness_summary(comparisons)
    /\ bench_op' = "get_vendor_competitiveness_summary"
    /\ UNCHANGED <<ingestion_vars, run_vars, benchmarker, bench_data, historical_data, benchmarks,
                   vendor_pricing, comparisons,
                   score_vars, variance_vars, severity_vars, proximity_vars>>

CalculateStatistics(prices) ==
    /\ score_op' = "calculate_statistics"
    /\ score_in' = [NoScoreArgs EXCEPT !.prices = prices]
    /\ \E floats \in {[i \in 1..Len(prices) |-> PriceOf(prices[i])]} :
           score_out' = calculate_statistics_binary64(floats)
    /\ UNCHANGED <<ingestion_vars, run_vars, benchmark_vars, variance_vars, severity_vars,
                   proximity_vars>>

LoadPricingData(data) ==
    /\ pricing_data' = data
    /\ last_op' = "none"
    /\ base_arg' = NoBase
    /\ variances' = <<>>
    /\ anomalies' = <<>>
    /\ cv_threshold' = RZero
    /\ high_variance' = <<>>
    /\ UNCHANGED <<ingestion_vars, run_vars, benchmark_vars, score_vars, detector, severity_vars,
                   proximity_vars>>

(* a record handed over once *)
AddDistinctRecord(o) ==
    /\ o \notin Range(pricing_data)
    /\ AddRecord(o)

GetHighVarianceSkus(threshold_cv) ==
    /\ high_variance' = get_high_variance_skus(pricing_data, threshold_cv)
    /\ cv_threshold' = threshold_cv
    /\ last_op' = "get_high_variance_skus"
    /\ base_arg' = NoBase
    /\ variances' = <<>>
    /\ anomalies' = <<>>
    /\ UNCHANGED <<ingestion_vars, run_vars, benchmark_vars, score_vars, pricing_data, detector,
                   severity_vars, proximity_vars>>

(* The invocations as the caller sees them: the entities returned, with the
   identifiers and timestamps the code draws for them.  The clock is read
   once per invocation. *)

Tick ==
    /\ clock < MaxClock
    /\ clock' = clock + 1
    /\ UNCHANGED <<ingestion_vars, run, previous_run, variance_vars, severity_vars,
                   proximity_vars, score_vars, benchmark_vars>>

Invocation(op, input, out) == [op |-> op, input |-> input, out |-> out]

(* AnomalyFlag(anomaly_id=str(uuid.uuid4()), ...) with detected_at taken
   from datetime.now *)
RunDetectAnomalies(data) ==
    /\ \E flags \in {detect_anomalies(data, detector)} :
       \E ids \in [1..Len(flags) -> Uuids] :
           run' = Invocation("detect_anomalies", data,
                      [i \in 1..Len(flags) |->
                          [anomaly_id |-> ids[i], detected_at |-> clock,
                           flag |-> flags[i]]])
    /\ previous_run' = run
    /\ UNCHANGED <<ingestion_vars, clock, variance_vars, severity_vars, proximity_vars,
                   score_vars, benchmark_vars>>

RunCalculateRegionalVariance(data) ==
    /\ run' = Invocation("calculate_regional_variance", data,
                  calculate_regional_variance(detector, data, NoBase))
    /\ previous_run' = run
    /\ UNCHANGED <<ingestion_vars, clock, variance_vars, severity_vars, proximity_vars,
                   score_vars, benchmark_vars>>

(* RegionalBenchmark(benchmark_id=str(uuid.uuid4()), ...) with period_end
   left to its default, datetime.now() *)
RunCreateSkuBenchmarks(data) ==
    /\ \E bms \in {create_sku_benchmarks(benchmarker, data, <<>>)} :
       \E ids \in [1..Len(bms) -> Uuids] :
           run' = Invocation("create_sku_benchmarks", data,
                      [i \in 1..Len(bms) |->
                          [benchmark_id |-> ids[i],
                           benchmark_period_start |->
                               clock - benchmarker.default_period_days,
                           benchmark_period_end |-> clock,
                           benchmark |-> bms[i]]])
    /\ previous_run' = run
    /\ UNCHANGED <<ingestion_vars, clock, variance_vars, severity_vars, proximity_vars,
                   score_vars, benchmark_vars>>

RunCompareVendorToBenchmark(data) ==
    /\ run' = Invocation("compare_vendor_to_benchmark", data,
                  compare_vendor_to_benchmark(RunVendorPricing,
                      create_sku_benchmarks(benchmarker, data, <<>>)))
    /\ previous_run' = run
    /\ UNCHANGED <<ingestion_vars, clock, variance_vars, severity_vars, proximity_vars,
                   score_vars, benchmark_vars>>

AddCategoryRecord(o) ==
    /\ Len(bench_data) < MaxCategoryRecords
    /\ o \notin Range(bench_data)
    /\ bench_data' = Append(bench_data, o)
    /\ bench_op' = "none"
    /\ benchmarks' = <<>>
    /\ UNCHANGED <<ingestion_vars, run_vars, benchmarker, historical_data, vendor_pricing,
                   comparisons, summary, score_vars, variance_vars,
                   severity_vars, proximity_vars>>

CreateCategoryBenchmarks ==
    /\ benchmarks' = create_category_benchmarks(bench_data)
    /\ bench_op' = "create_category_benchmarks"
    /\ UNCHANGED <<ingestion_vars, run_vars, benchmarker, bench_data, historical_data,
                   vendor_pricing, comparisons, summary, score_vars,
                   variance_vars, severity_vars, proximity_vars>>

CalculateZScore(value, mean, std_dev) ==
    /\ score_op' = "calculate_z_score"
    /\ score_in' = [NoScoreArgs EXCEPT !.value = value, !.mean = mean,
                                       !.std_dev = std_dev]
    /\ score_out' = calculate_z_score_binary64(PriceOf(value), PriceOf(mean),
                                               PriceOf(std_dev))
    /\ UNCHANGED <<ingestion_vars, run_vars, benchmark_vars, variance_vars, severity_vars,
                   proximity_vars>>

AddUniformRecord(o) ==
    /\ Len(pricing_data) < MaxUniformRecords
    /\ o \notin Range(pricing_data)
    /\ AddRecord(o)

AddThresholdRecord(unit_price) ==
    /\ Len(pricing_data) < MaxThresholdRecords
    /\ pricing_data' = Append(pricing_data,
                               ThresholdRecord(Len(pricing_data) + 1, unit_price))
    /\ last_op' = "none"
    /\ base_arg' = NoBase
    /\ variances' = <<>>
    /\ anomalies' = <<>>
    /\ cv_threshold' = RZero
    /\ high_variance' = <<>>
    /\ UNCHANGED <<ingestion_vars, run_vars, benchmark_vars, score_vars, detector,
                   severity_vars, proximity_vars>>

DetectAnomaliesBinary64 ==
    /\ anomalies' = detect_anomalies_binary64(pricing_data, detector)
    /\ cv_threshold' = RZero
    /\ high_variance' = <<>>
    /\ last_op' = "detect_anomalies"
    /\ base_arg' = NoBase
    /\ variances' = <<>>
    /\ UNCHANGED <<ingestion_vars, run_vars, benchmark_vars, score_vars, pricing_data,
                   detector, severity_vars, proximity_vars>>

CreateRateLimiter(max_requests, window_seconds) ==
    /\ acquire_pc = "none"
    /\ limiter' = RateLimiter(max_requests, window_seconds)
    /\ acquire_pc' = "idle"
    /\ UNCHANGED <<wall, sleep_until, granted, paginated_vars, run_vars,
                   benchmark_vars, score_vars, variance_vars, severity_vars,
                   proximity_vars>>

(* time passes between two calls *)
AdvanceTime ==
    /\ acquire_pc \in {"idle", "returned", "raised"}
    /\ wall < MaxWall
    /\ wall' = wall + 1
    /\ UNCHANGED <<limiter, acquire_pc, sleep_until, granted, paginated_vars,
                   run_vars, benchmark_vars, score_vars, variance_vars,
                   severity_vars, proximity_vars>>

(* the body of acquire() run at time now *)
AcquirePass(now) ==
    \E pass \in {acquire(limiter, now)} :
        /\ wall' = now
        /\ limiter' = pass.self
        /\ acquire_pc' = pass.outcome
        /\ sleep_until' = IF pass.outcome = "sleeping"
                          THEN now + pass.wait_time ELSE 0
        /\ granted' = IF pass.outcome = "returned"
                      THEN Append(granted, now) ELSE granted
        /\ UNCHANGED <<paginated_vars, run_vars, benchmark_vars, score_vars,
                       variance_vars, severity_vars, proximity_vars>>

(* a call of acquire() *)
Acquire ==
    /\ acquire_pc \in {"idle", "returned", "raised"}
    /\ wall <= MaxWall
    /\ AcquirePass(wall)

(* time.sleep(wait_time) is over: "return self.acquire()" *)
WakeAndRetry(late) ==
    /\ acquire_pc = "sleeping"
    /\ AcquirePass(sleep_until + late)

(* fetch_paginated up to its loop *)
StartFetchPaginated(pagination_type, page_size, max_pages) ==
    /\ fetch_pc = "none"
    /\ endpoint' = [pagination_type |-> pagination_type,
                    page_size |-> page_size, max_pages |-> max_pages]
    /\ combined_result' = FetchResult
    /\ current_params' = NoParams
    /\ page' = 0
    /\ page_log' = <<>>
    /\ fetch_pc' = "loop"
    /\ UNCHANGED <<limiter_vars, run_vars, benchmark_vars, score_vars,
                   variance_vars, severity_vars, proximity_vars>>

(* one iteration of "while page < max_pages" *)
FetchPage(api_response) ==
    /\ fetch_pc = "loop"
    /\ page < endpoint.max_pages
    /\ \E params \in {PageParams(endpoint, current_params, page)} :
       \E page_result \in {fetch_vendor_pricing(api_response,
                                                 Len(page_log) + 1)} :
           /\ combined_result' = Combine(combined_result, page_result)
           /\ page_log' = Append(page_log,
                                 [page |-> page, params |-> params,
                                  result |-> page_result])
           /\ IF StopsPaging(page_result, endpoint.page_size)
              THEN /\ fetch_pc' = "exit"
                   /\ current_params' = params
                   /\ page' = page
              ELSE IF CursorEnds(endpoint, page_result)
              THEN /\ fetch_pc' = "exit"
                   /\ current_params' = params
                   /\ page' = page
              ELSE /\ fetch_pc' = "loop"
                   /\ current_params' =
                          IF endpoint.pagination_type = "cursor"
                          THEN [params EXCEPT
                                   !.cursor = api_response.next_cursor]
                          ELSE params
                   /\ page' = page + 1
    /\ UNCHANGED <<endpoint, limiter_vars, run_vars, benchmark_vars,
                   score_vars, variance_vars, severity_vars, proximity_vars>>

(* fetch_paginated after its loop *)
CompleteFetch ==
    /\ \/ fetch_pc = "exit"
       \/ fetch_pc = "loop" /\ ~(page < endpoint.max_pages)
    /\ combined_result' = Completed(combined_result)
    /\ fetch_pc' = "done"
    /\ UNCHANGED <<endpoint, page, current_params, page_log, limiter_vars,
                   run_vars, benchmark_vars, score_vars, variance_vars,
                   severity_vars, proximity_vars>>

---------------------------------------------------------------------------
(* Specifications *)

InitEngine ==
    /\ pricing_data = <<>>
    /\ last_op = "none"
    /\ base_arg = NoBase
    /\ variances = <<>>
    /\ anomalies = <<>>
    /\ cv_threshold = RZero
    /\ high_variance = <<>>
    /\ sev_in = NoCall
    /\ sev_out = "none"
    /\ analyzer = DefaultAnalyzer
    /\ distribution_centers = <<>>
    /\ prox_op = "none"
    /\ prox_args = NoArgs
    /\ coverage = NoResult
    /\ gap_threshold = RZero
    /\ gaps = <<>>
    /\ score_op = "none"
    /\ score_in = NoScoreArgs
    /\ score_out = RZero
    /\ bench_data = <<>>
    /\ bench_op = "none"
    /\ historical_data = <<>>
    /\ benchmarks = <<>>
    /\ vendor_pricing = <<>>
    /\ comparisons = <<>>
    /\ summary = NoSummary
    /\ market_coverages = <<>>
    /\ clock = 0
    /\ run = NoRun
    /\ previous_run = NoRun
    /\ limiter = NoLimiter
    /\ wall = 0
    /\ acquire_pc = "none"
    /\ sleep_until = 0
    /\ granted = <<>>
    /\ endpoint = NoEndpoint
    /\ fetch_pc = "none"
    /\ page = 0
    /\ current_params = NoParams
    /\ combined_result = NoFetchResult
    /\ page_log = <<>>

InitAnomaly ==
    InitEngine /\ detector \in Detectors /\ benchmarker = DefaultBenchmarker

NextAnomaly ==
    \/ \E o \in Observations : AddRecord(o)
    \/ DetectAnomalies

SpecAnomaly == InitAnomaly /\ [][NextAnomaly]_vars

InitRegional ==
    InitEngine /\ detector = DefaultDetector /\ benchmarker = DefaultBenchmarker

NextRegional ==
    \/ \E o \in Observations : AddRecord(o)
    \/ \E b \in BaseArgs : CalculateRegionalVariance(b)

SpecRegional == InitRegional /\ [][NextRegional]_vars

NextSeverity == \E z \in SeverityZ, v \in SeverityV : DetermineSeverity(z, v)

InitSeverity ==
    InitEngine /\ detector = DefaultDetector /\ benchmarker = DefaultBenchmarker

SpecSeverity == InitSeverity /\ [][NextSeverity]_vars

InitDivision ==
    /\ InitEngine
    /\ detector \in AdjustedDetectors
    /\ benchmarker = DefaultBenchmarker

NextDivision ==
    \/ \E data \in DegenerateInputs : LoadPricingData(data)
    \/ \E b \in BaseArgs : CalculateRegionalVariance(b)
    \/ DetectAnomalies
    \/ \E d \in TravelDistances, speed \in AverageSpeeds :
           EstimateTravelTime(d, speed)
    \/ \E lo \in DegeneratePrices, hi \in DegeneratePrices,
           avg \in DegeneratePrices :
           \E p \in {lo, hi, avg} : CalculateCompetitivenessScore(p, lo, hi, avg)

SpecDivision == InitDivision /\ [][NextDivision]_vars

InitHighVariance ==
    InitEngine /\ detector = DefaultDetector /\ benchmarker = DefaultBenchmarker

NextHighVariance ==
    \/ \E o \in CvObservations : AddDistinctRecord(o)
    \/ \E t \in CvThresholds : GetHighVarianceSkus(t)

SpecHighVariance == InitHighVariance /\ [][NextHighVariance]_vars

InitRuns ==
    /\ InitEngine
    /\ detector = DefaultDetector
    /\ benchmarker = [DefaultBenchmarker EXCEPT !.min_sample_size = 2]

NextRuns ==
    \/ Tick
    \/ \E data \in RunSnapshots : RunDetectAnomalies(data)
    \/ \E data \in RunSnapshots : RunCalculateRegionalVariance(data)
    \/ \E data \in RunSnapshots : RunCreateSkuBenchmarks(data)
    \/ \E data \in RunSnapshots : RunCompareVendorToBenchmark(data)

SpecRuns == InitRuns /\ [][NextRuns]_vars

InitStatistics ==
    InitEngine /\ detector = DefaultDetector /\ benchmarker = DefaultBenchmarker

NextStatistics == \E prices \in PriceLists : CalculateStatistics(prices)

SpecStatistics == InitStatistics /\ [][NextStatistics]_vars

InitScore ==
    InitEngine /\ detector = DefaultDetector /\ benchmarker = DefaultBenchmarker

NextScore ==
    \/ \E d \in ScoreDistances, mx \in MaxDistances, k \in DecayFactors :
           CalculateProximityScore(d, mx, k)
    \/ \E d \in ScoreDistances : EstimateTravelTime(d, RInt(60))
    \/ \E d \in ScoreDistances : CalculateShippingCostFactor(d)
    \/ \E p \in ProximityPairs : CalculateProximity(p.market, p.center)

SpecScore == InitScore /\ [][NextScore]_vars

InitCompetitiveness ==
    InitEngine /\ detector = DefaultDetector /\ benchmarker = DefaultBenchmarker

NextCompetitiveness ==
    \E lo \in PriceValues, hi \in PriceValues, avg \in PriceValues :
        \E p \in {lo, hi, avg} : CalculateCompetitivenessScore(p, lo, hi, avg)

SpecCompetitiveness == InitCompetitiveness /\ [][NextCompetitiveness]_vars

InitSummary ==
    /\ InitEngine /\ detector = DefaultDetector
    /\ benchmarker = [DefaultBenchmarker EXCEPT !.min_sample_size = 2]

NextSummary ==
    \/ LoadBenchData(SummaryPricing)
    \/ CreateSkuBenchmarks(<<>>)
    \/ \E p \in FeedPrices : AddVendorRecord(NextFeedMarket, p)
    \/ CompareVendorToBenchmark(vendor_pricing)
    \/ GetVendorCompetitivenessSummary

SpecSummary == InitSummary /\ [][NextSummary]_vars

InitBenchmark ==
    InitEngine /\ detector = DefaultDetector /\ benchmarker \in Benchmarkers

NextBenchmark ==
    \/ \E o \in BenchObservations : AddBenchRecord(o)
    \/ \E h \in HistoricalLists : CreateSkuBenchmarks(h)
    \/ \E vp \in VendorPricingLists : CompareVendorToBenchmark(vp)

SpecBenchmark == InitBenchmark /\ [][NextBenchmark]_vars

InitCategory ==
    InitEngine /\ detector = DefaultDetector /\ benchmarker = DefaultBenchmarker

NextCategory ==
    \/ \E o \in CategoryObservations : AddCategoryRecord(o)
    \/ CreateCategoryBenchmarks

SpecCategory == InitCategory /\ [][NextCategory]_vars

InitZScore ==
    /\ InitEngine
    /\ detector \in ZScoreDetectors
    /\ benchmarker = DefaultBenchmarker

NextZScore ==
    \/ \E o \in UniformObservations : AddUniformRecord(o)
    \/ DetectAnomaliesBinary64
    \/ \E value \in ZValues, mean \in ZMeans, std_dev \in ZStdDevs :
           CalculateZScore(value, mean, std_dev)

SpecZScore == InitZScore /\ [][NextZScore]_vars

InitThreshold ==
    /\ InitEngine
    /\ detector \in ThresholdDetectors
    /\ benchmarker = DefaultBenchmarker

NextThreshold ==
    \/ \E unit_price \in ThresholdPrices : AddThresholdRecord(unit_price)
    \/ DetectAnomalies

SpecThreshold == InitThreshold /\ [][NextThreshold]_vars

InitLimiter ==
    /\ InitEngine
    /\ detector = DefaultDetector
    /\ benchmarker = DefaultBenchmarker

NextLimiter ==
    \/ \E max_requests \in MaxRequests, window_seconds \in WindowSeconds :
           CreateRateLimiter(max_requests, window_seconds)
    \/ AdvanceTime
    \/ Acquire
    \/ \E late \in Oversleep : WakeAndRetry(late)

(* time.sleep() returns *)
SpecLimiter ==
    /\ InitLimiter
    /\ [][NextLimiter]_vars
    /\ WF_vars(\E late \in Oversleep : WakeAndRetry(late))

InitPaginated ==
    /\ InitEngine
    /\ detector = DefaultDetector
    /\ benchmarker = DefaultBenchmarker

NextPaginated ==
    \/ \E pagination_type \in PaginationTypes, page_size \in PageSizes,
          max_pages \in PageLimits :
           StartFetchPaginated(pagination_type, page_size, max_pages)
    \/ \E api_response \in Answers(Len(page_log) + 1) :
           FetchPage(api_response)
    \/ CompleteFetch

(* every request is answered (fetch returns on an error and on a timeout)
   and the statements after the loop run *)
SpecPaginated ==
    /\ InitPaginated
    /\ [][NextPaginated]_vars
    /\ WF_vars(\E api_response \in Answers(Len(page_log) + 1) :
                   FetchPage(api_response))
    /\ WF_vars(CompleteFetch)

InitProximity ==
    InitEngine /\ detector = DefaultDetector /\ benchmarker = DefaultBenchmarker

NextProximity ==
    \/ \E dc \in CenterRecords : AddCenter(dc)
    \/ \E m \in MarketRecordSet, i \in 1..Len(VendorList) :
           AnalyzeVendorCoverage(m, VendorList[i])
    \/ \E m \in MarketRecordSet : AnalyzeMarketVendors(m)
    \/ \E t \in MinCoverageScores : FindCoverageGaps(t)

SpecProximity == InitProximity /\ [][NextProximity]_vars

---------------------------------------------------------------------------
(* Vocabulary of the properties, stated on the input records themselves *)

RECURSIVE ISum(_)
ISum(s) == IF s = <<>> THEN 0 ELSE Head(s) + ISum(Tail(s))

SeqToBag(s) == [x \in Range(s) |-> Cardinality({i \in 1..Len(s) : s[i] = x})]

(* the positive prices quoted for a SKU, and for a SKU in one market *)
GroupPrices(sku) ==
    LET g == SelectSeq(pricing_data, LAMBDA r : r.sku_id = sku /\ r.unit_price > 0)
    IN  [i \in 1..Len(g) |-> g[i].unit_price]

MarketPrices(sku, m) ==
    LET g == SelectSeq(pricing_data,
                 LAMBDA r : r.sku_id = sku /\ r.market_id = m /\ r.unit_price > 0)
    IN  [i \in 1..Len(g) |-> g[i].unit_price]

(* q is the mean of the non-empty integer list s *)
IsMeanOf(q, s) == q.num * Len(s) = ISum(s) * q.den

(* n * p - S: the deviation of p from the mean of s, scaled by n = Len(s) *)
Dev(p, s) == Len(s) * p - ISum(s)

SumSqDev(s) == ISum([i \in 1..Len(s) |-> Dev(s[i], s) * Dev(s[i], s)])

(* |z| >= t and |variance%| >= t for price p in the group s, by cross
   multiplication: z = Dev / sqrt(SumSqDev / (n - 1)), or 0 when all the
   prices are equal; variance% = 100 * Dev / S *)
ZAtLeast(p, s, t) ==
    \/ t.num <= 0
    \/ /\ SumSqDev(s) > 0
       /\ Dev(p, s) * Dev(p, s) * (Len(s) - 1) * t.den * t.den
              >= t.num * t.num * SumSqDev(s)

PctAtLeast(p, s, t) == 100 * Abs(Dev(p, s)) * t.den >= t.num * ISum(s)

ShouldFlag(r) ==
    LET s == GroupPrices(r.sku_id)
    IN  /\ r.unit_price > 0
        /\ Len(s) >= 2
        /\ \/ ZAtLeast(r.unit_price, s, detector.z_score_threshold)
           \/ PctAtLeast(r.unit_price, s, detector.variance_threshold_pct)

IsObservationFlag(a) == a.anomaly_type \in {"price_spike", "price_drop"}

IsRegionalFlag(a) == a.anomaly_type = "regional_variance"

ObservationOf(a) ==
    [sku_id |-> a.sku_id, vendor_id |-> a.vendor_id, market_id |-> a.market_id,
     unit_price |-> a.actual_price.num]

Detected == last_op = "detect_anomalies"

---------------------------------------------------------------------------
(* C1: calculate_regional_variance called with a base_region_id compares
   every SKU that has a priced observation in that market against that
   market (base_region_id = the supplied id, base_price = that market's
   average), whatever the other SKUs and their order; only SKUs that lack
   the market are compared against "global_avg". *)
C1_BaseRegionHonoured ==
    (last_op = "calculate_regional_variance" /\ base_arg # NoBase) =>
        \A i \in 1..Len(variances) :
            LET v == variances[i]
                at_base == MarketPrices(v.sku_id, base_arg)
            IN  IF at_base # <<>>
                THEN /\ v.base_region_id = base_arg
                     /\ IsMeanOf(v.base_price, at_base)
                ELSE v.base_region_id = GlobalAvg

(* C2: every per-observation anomaly is a price_spike exactly when its
   z-score is > 0 and a price_drop exactly when its z-score is < 0, so a
   spike has actual_price above expected_price and a drop below it, for
   any configured thresholds. *)
C2_TypeMatchesZSign ==
    Detected =>
        \A i \in 1..Len(anomalies) :
            LET a == anomalies[i]
            IN  IsObservationFlag(a) =>
                    /\ a.anomaly_type = "price_spike" <=> a.z_score.sgn > 0
                    /\ a.anomaly_type = "price_drop" <=> a.z_score.sgn < 0
                    /\ a.anomaly_type = "price_spike" =>
                           RGt(a.actual_price, a.expected_price)
                    /\ a.anomaly_type = "price_drop" =>
                           RLt(a.actual_price, a.expected_price)

(* C3: detect_anomalies emits exactly one price_spike / price_drop flag for
   each observation with unit_price > 0 in a SKU group with >= 2 priced
   observations that meets the z-score or the variance threshold against
   the group mean, and none for any other observation; records with a
   missing or zero price are never flagged and do not enter the mean. *)
C3_FlagsExactlyTheOutliers ==
    Detected =>
        LET flags == SelectSeq(anomalies, IsObservationFlag)
            due == SelectSeq(pricing_data, ShouldFlag)
        IN  /\ SeqToBag([i \in 1..Len(flags) |-> ObservationOf(flags[i])])
                   = SeqToBag(due)
            /\ \A i \in 1..Len(flags) :
                   /\ flags[i].actual_price.den = 1
                   /\ flags[i].actual_price.num > 0
                   /\ IsMeanOf(flags[i].expected_price,
                               GroupPrices(flags[i].sku_id))

C3_Witness ==
    /\ Detected
    /\ \E i, j, k \in 1..Len(pricing_data) :
           /\ pricing_data[i].sku_id = pricing_data[j].sku_id
           /\ pricing_data[i].sku_id = pricing_data[k].sku_id
           /\ pricing_data[i].unit_price = 0
           /\ ShouldFlag(pricing_data[j])
           /\ pricing_data[k].unit_price > 0 /\ ~ShouldFlag(pricing_data[k])
           /\ \E n \in 1..Len(anomalies) :
                  /\ IsObservationFlag(anomalies[n])
                  /\ ObservationOf(anomalies[n]) = pricing_data[j]

(* C4: every regional_variance anomaly has |variance_percentage| >=
   variance_threshold_pct, severity high or critical and no z-score; a
   region pair whose severity is low or medium (|variance| < 30) yields no
   regional_variance anomaly even when it meets the threshold. *)
C4_RegionalFlagsHighOnly ==
    Detected =>
        LET pairs == Range(calculate_regional_variance(detector, pricing_data, NoBase))
            flags == SelectSeq(anomalies, IsRegionalFlag)
        IN  /\ \A i \in 1..Len(flags) :
                   /\ RGe(RAbs(flags[i].variance_percentage),
                          detector.variance_threshold_pct)
                   /\ flags[i].severity \in {"high", "critical"}
                   /\ flags[i].z_score.none
            /\ \A v \in pairs :
                   RLt(RAbs(v.percentage_variance), RInt(30)) =>
                       ~\E i \in 1..Len(flags) :
                           /\ flags[i].sku_id = v.sku_id
                           /\ flags[i].market_id = v.comparison_region_id

C4_Witness ==
    /\ Detected
    /\ \E i \in 1..Len(anomalies) : IsRegionalFlag(anomalies[i])
    /\ \E v \in Range(calculate_regional_variance(detector, pricing_data, NoBase)) :
           /\ RGe(RAbs(v.percentage_variance), detector.variance_threshold_pct)
           /\ RGt(RAbs(v.percentage_variance), RZero)
           /\ RLt(RAbs(v.percentage_variance), RInt(30))

(* C5: the list returned by detect_anomalies is ordered critical, high,
   medium, low, and anomalies of equal severity keep their discovery order
   (per-observation anomalies in SKU-group then record order, followed by
   the regional_variance anomalies). *)
C5_SortedBySeverityStable ==
    Detected =>
        LET discovered == DiscoveredAnomalies(pricing_data, detector)
        IN  /\ \A i, j \in 1..Len(anomalies) :
                   i < j => severity_order(anomalies[i].severity)
                                <= severity_order(anomalies[j].severity)
            /\ \A sev \in {"critical", "high", "medium", "low"} :
                   SelectSeq(anomalies, LAMBDA a : a.severity = sev)
                       = SelectSeq(discovered, LAMBDA a : a.severity = sev)

C5_Witness ==
    /\ Detected
    /\ anomalies # DiscoveredAnomalies(pricing_data, detector)
    /\ \E i, j \in 1..Len(anomalies) :
           /\ i < j
           /\ anomalies[i].severity = anomalies[j].severity
           /\ anomalies[i] # anomalies[j]
           /\ IsObservationFlag(anomalies[i]) /\ IsRegionalFlag(anomalies[j])

(* C6: determine_severity(z, v) is critical iff |z| >= 4 or |v| >= 50,
   otherwise high iff |z| >= 3 or |v| >= 30, otherwise medium iff |z| >= 2
   or |v| >= 15, otherwise low; an absent z-score contributes nothing; the
   result depends only on |z| and |v| and is non-decreasing in both. *)
C6_SeverityTable ==
    sev_out # "none" =>
        LET z == sev_in.z
            v == sev_in.v
            ZGe(t) == ~z.none /\ z.sq.num >= t * t * z.sq.den
            VGe(t) == Abs(v.num) >= t * v.den
            AbsLe(z1, z2) == z1.none \/ (~z2.none /\ RLe(z1.sq, z2.sq))
        IN  /\ sev_out = "critical" <=> (ZGe(4) \/ VGe(50))
            /\ sev_out = "high" <=>
                   (~(ZGe(4) \/ VGe(50)) /\ (ZGe(3) \/ VGe(30)))
            /\ sev_out = "medium" <=>
                   (~(ZGe(3) \/ VGe(30)) /\ (ZGe(2) \/ VGe(15)))
            /\ sev_out = "low" <=> ~(ZGe(2) \/ VGe(15))
            /\ \A z2 \in SeverityZ, v2 \in SeverityV :
                   (AbsLe(z, z2) /\ RLe(RAbs(v), RAbs(v2))) =>
                       severity_order(determine_severity(z2, v2))
                           <= severity_order(sev_out)
            /\ \A z2 \in SeverityZ, v2 \in SeverityV :
                   (AbsLe(z, z2) /\ AbsLe(z2, z) /\ RAbs(v) = RAbs(v2)) =>
                       determine_severity(z2, v2) = sev_out

C6_Witness ==
    /\ sev_out = "high"
    /\ sev_in.z.none
    /\ RLt(sev_in.v, RZero)

---------------------------------------------------------------------------
(* Vocabulary of the coverage properties *)

CoverageAnalyzed == prox_op = "analyze_vendor_coverage"

MarketAnalyzed == prox_op = "analyze_market_vendors"

(* positions of the centers a vendor owns in a list of centers *)
OwnedIn(centers, vendor_id) ==
    {i \in 1..Len(centers) : centers[i].vendor_id = vendor_id}

IsInfinite(x) == x.den = 0 /\ x.num > 0

(* distance of a center record from the market of the last call *)
DistanceFrom(market, dc) ==
    haversine_distance(market.latitude, market.longitude,
                       dc.latitude, dc.longitude)

(* the list of centers before its last one was added *)
CentersBefore == SubSeq(distribution_centers, 1, Len(distribution_centers) - 1)

LastCenter == distribution_centers[Len(distribution_centers)]

(* what analyze_vendor_coverage reported for the vendor and market of the
   last call before the last center was added *)
CoverageBefore ==
    analyze_vendor_coverage(analyzer, prox_args.market, prox_args.vendor,
                            CentersBefore)

(* the last center belongs to the analyzed vendor, who owned one before *)
OneMoreCenter ==
    /\ CoverageAnalyzed
    /\ distribution_centers # <<>>
    /\ LastCenter.vendor_id = prox_args.vendor.vendor_id
    /\ OwnedIn(CentersBefore, prox_args.vendor.vendor_id) # {}

(* C7: analyze_vendor_coverage for a vendor owning none of the supplied
   centers (the empty list included) returns a VendorCoverage with
   center_count 0, coverage_score 0.0, infinite nearest and average
   distance and no centers. *)
C7_NoCentersSentinel ==
    (CoverageAnalyzed
        /\ OwnedIn(distribution_centers, prox_args.vendor.vendor_id) = {}) =>
        /\ coverage.vendor_id = prox_args.vendor.vendor_id
        /\ coverage.market_id = prox_args.market.market_id
        /\ coverage.center_count = 0
        /\ coverage.coverage_score = RZero
        /\ IsInfinite(coverage.nearest_center_distance_km)
        /\ IsInfinite(coverage.average_distance_km)
        /\ coverage.centers = <<>>

C7_Witness ==
    /\ CoverageAnalyzed
    /\ distribution_centers # <<>>
    /\ OwnedIn(distribution_centers, prox_args.vendor.vendor_id) = {}
    /\ coverage.center_count = 0

(* C8: for a vendor owning n >= 1 of the centers, analyze_vendor_coverage
   reports exactly those n centers, in order of non-decreasing distance,
   the nearest distance being the first one's; coverage_score is the sum of
   score_i / (i+1) divided by the sum of 1 / (i+1) over that order, hence
   within [0, 100] and between the smallest and the largest score. *)
C8_RankWeightedAverage ==
    LET own == OwnedIn(distribution_centers, prox_args.vendor.vendor_id)
        n == Cardinality(own)
        cs == coverage.centers
        scores == [i \in 1..Len(cs) |-> cs[i].proximity_score]
        weights == [i \in 1..Len(cs) |-> Rat(1, i)]
    IN  (CoverageAnalyzed /\ n >= 1) =>
            /\ coverage.center_count = n
            /\ Len(cs) = n
            /\ SeqToBag([i \in 1..n |-> cs[i].center_id])
                   = SeqToBag([i \in 1..n |->
                         SelectSeq(distribution_centers,
                             LAMBDA dc : dc.vendor_id
                                 = prox_args.vendor.vendor_id)[i].center_id])
            /\ \A i \in 1..n :
                   \E k \in own :
                       /\ distribution_centers[k].center_id = cs[i].center_id
                       /\ cs[i].distance_km
                              = DistanceFrom(prox_args.market,
                                             distribution_centers[k])
            /\ \A i, j \in 1..n :
                   i < j => RLe(cs[i].distance_km, cs[j].distance_km)
            /\ coverage.nearest_center_distance_km = cs[1].distance_km
            /\ RMul(coverage.coverage_score, RSum(weights))
                   = RSum([i \in 1..n |-> RMul(scores[i], weights[i])])
            /\ RGe(coverage.coverage_score, RZero)
            /\ RLe(coverage.coverage_score, RInt(100))
            /\ RGe(coverage.coverage_score, RMin(scores))
            /\ RLe(coverage.coverage_score, RMax(scores))

C8_Witness ==
    /\ CoverageAnalyzed
    /\ coverage.center_count = 3
    /\ \E i, j \in OwnedIn(distribution_centers, prox_args.vendor.vendor_id) :
           /\ i < j
           /\ RGt(DistanceFrom(prox_args.market, distribution_centers[i]),
                  DistanceFrom(prox_args.market, distribution_centers[j]))
    /\ RGt(coverage.coverage_score, RMin([i \in 1..3 |->
               coverage.centers[i].proximity_score]))
    /\ RLt(coverage.coverage_score, RMax([i \in 1..3 |->
               coverage.centers[i].proximity_score]))

(* C9: one more center for a vendor, no nearer to the market than the
   farthest center the vendor already has, never raises the coverage_score
   analyze_vendor_coverage reports for that vendor and market: the score is
   a rank-weighted average, which a center ranked last can only pull down. *)
C9_FartherCenterNeverRaises ==
    (OneMoreCenter
        /\ \A i \in 1..Len(CoverageBefore.centers) :
               RGe(DistanceFrom(prox_args.market, LastCenter),
                   CoverageBefore.centers[i].distance_km)) =>
        /\ coverage.center_count = CoverageBefore.center_count + 1
        /\ RLe(coverage.coverage_score, CoverageBefore.coverage_score)

C9_Witness ==
    /\ OneMoreCenter
    /\ \A i \in 1..Len(CoverageBefore.centers) :
           RGe(DistanceFrom(prox_args.market, LastCenter),
               CoverageBefore.centers[i].distance_km)
    /\ coverage.nearest_center_distance_km
           = CoverageBefore.nearest_center_distance_km
    /\ RLt(coverage.coverage_score, CoverageBefore.coverage_score)

(* C9 as stated: one more center, no nearer than the current nearest one,
   never lowers the coverage_score. *)
C9_MoreCentersNeverLower ==
    (OneMoreCenter
        /\ RGe(DistanceFrom(prox_args.market, LastCenter),
               CoverageBefore.nearest_center_distance_km)) =>
        RGe(coverage.coverage_score, CoverageBefore.coverage_score)

(* C10: analyze_market_vendors drops the vendors that own none of the
   centers and sorts the rest: no entry of its result has center_count 0,
   every input vendor owning a center appears in it once with the coverage
   analyze_vendor_coverage reports (so every vendor with a positive
   coverage_score does), and the entries are in non-increasing
   coverage_score order. *)
C10_OwnersKeptBestFirst ==
    MarketAnalyzed =>
        LET res == market_coverages
            owners == {i \in 1..Len(VendorList) :
                          OwnedIn(distribution_centers,
                                  VendorList[i].vendor_id) # {}}
        IN  /\ \A k \in 1..Len(res) : res[k].center_count > 0
            /\ Len(res) = Cardinality(owners)
            /\ \A i \in owners :
                   \E k \in 1..Len(res) :
                       res[k] = analyze_vendor_coverage(analyzer,
                                    prox_args.market, VendorList[i],
                                    distribution_centers)
            /\ \A i \in 1..Len(VendorList) :
                   RGt(analyze_vendor_coverage(analyzer, prox_args.market,
                           VendorList[i], distribution_centers).coverage_score,
                       RZero)
                   => \E k \in 1..Len(res) :
                          res[k].vendor_id = VendorList[i].vendor_id
            /\ \A j, k \in 1..Len(res) :
                   j < k => RGe(res[j].coverage_score, res[k].coverage_score)

C10_Witness ==
    /\ MarketAnalyzed
    /\ Len(market_coverages) = 2
    /\ RGt(market_coverages[1].coverage_score, market_coverages[2].coverage_score)
    /\ market_coverages[1].vendor_id = VendorList[2].vendor_id
    /\ market_coverages[2].vendor_id = VendorList[1].vendor_id
    /\ OwnedIn(distribution_centers, VendorList[3].vendor_id) = {}

(* C10 as stated: no entry of the result has coverage_score 0 or
   center_count 0, every vendor with a positive coverage_score appears, and
   the entries are in non-increasing coverage_score order. *)
C10_NoZeroScoreKept ==
    MarketAnalyzed =>
        /\ \A k \in 1..Len(market_coverages) :
               /\ market_coverages[k].coverage_score # RZero
               /\ market_coverages[k].center_count # 0
        /\ \A i \in 1..Len(VendorList) :
               RGt(analyze_vendor_coverage(analyzer, prox_args.market,
                       VendorList[i], distribution_centers).coverage_score,
                   RZero)
               => \E k \in 1..Len(market_coverages) :
                      market_coverages[k].vendor_id = VendorList[i].vendor_id
        /\ \A j, k \in 1..Len(market_coverages) :
               j < k => RGe(market_coverages[j].coverage_score,
                            market_coverages[k].coverage_score)

(* C11: find_coverage_gaps returns one entry for exactly the (market,
   vendor) pairs whose coverage_score is strictly below min_coverage_score,
   a vendor without centers counting with score 0, and the entries are in
   non-decreasing coverage_score order. *)
C11_GapsExactlyBelowMinimum ==
    prox_op = "find_coverage_gaps" =>
        /\ \A m \in 1..Len(MarketList), v \in 1..Len(VendorList) :
               LET cov == analyze_vendor_coverage(analyzer, MarketList[m],
                              VendorList[v], distribution_centers)
                   score == IF OwnedIn(distribution_centers,
                                       VendorList[v].vendor_id) = {}
                            THEN RZero ELSE cov.coverage_score
                   entries == {k \in 1..Len(gaps) :
                                  /\ gaps[k].market_id = MarketList[m].market_id
                                  /\ gaps[k].vendor_id = VendorList[v].vendor_id}
               IN  /\ Cardinality(entries)
                          = IF score.num * gap_threshold.den
                                   < gap_threshold.num * score.den
                            THEN 1 ELSE 0
                   /\ \A k \in entries : gaps[k].coverage_score = score
        /\ \A j, k \in 1..Len(gaps) :
               j < k => RLe(gaps[j].coverage_score, gaps[k].coverage_score)

C11_Witness ==
    /\ prox_op = "find_coverage_gaps"
    /\ gap_threshold = RInt(30)
    /\ Len(gaps) >= 3
    /\ Len(gaps) < Len(MarketList) * Len(VendorList)
    /\ gaps[1].center_count = 0
    /\ RGt(gaps[Len(gaps)].coverage_score, RZero)
    /\ gaps[1].market_id # gaps[2].market_id

---------------------------------------------------------------------------
(* Vocabulary of the distance function properties *)

ScoreCalled == score_op = "calculate_proximity_score"

(* a <= b on rationals, by cross-multiplication *)
AtMost(a, b) == a.num * b.den <= b.num * a.den

(* C12: calculate_proximity_score returns exactly 100 for every distance
   <= 0 and exactly 0 for every positive distance >= max_distance_km,
   whatever max_distance_km and decay_factor are, and everywhere a value in
   [0, 100] that is non-increasing in distance. *)
C12_ScoreClampedMonotone ==
    ScoreCalled =>
        LET d == score_in.distance_km
            mx == score_in.max_distance_km
        IN  /\ AtMost(d, RZero) => score_out = RInt(100)
            /\ (~AtMost(d, RZero) /\ AtMost(mx, d)) => score_out = RZero
            /\ AtMost(RZero, score_out) /\ AtMost(score_out, RInt(100))
            /\ \A d2 \in ScoreDistances :
                   AtMost(d, d2) =>
                       AtMost(calculate_proximity_score(d2, mx,
                                  score_in.decay_factor), score_out)

C12_Witness ==
    /\ ScoreCalled
    /\ score_in.decay_factor = RInt(-1)
    /\ ~AtMost(score_in.distance_km, RZero)
    /\ ~AtMost(score_in.max_distance_km, score_in.distance_km)
    /\ score_out = RInt(100)

(* C12 as stated: exactly 100 for every distance <= 0 and exactly 0 for
   every distance >= max_distance_km, for any max_distance_km. *)
C12_ZeroAtOrBeyondMax ==
    ScoreCalled =>
        /\ AtMost(score_in.distance_km, RZero) => score_out = RInt(100)
        /\ AtMost(score_in.max_distance_km, score_in.distance_km)
               => score_out = RZero

InRange(point) ==
    /\ point.latitude >= -90 /\ point.latitude <= 90
    /\ point.longitude >= -180 /\ point.longitude <= 180

(* C13: a longitude outside [-180, 180] or a latitude outside [-90, 90]
   handed to calculate_proximity yields an InvalidCoordinate error, and a
   negative distance handed to calculate_proximity_score,
   estimate_travel_time or calculate_shipping_cost_factor yields an
   InvalidDistance error instead of a score or factor. *)
C13_CallerErrorsReported ==
    /\ (score_op = "calculate_proximity"
           /\ ~(InRange(score_in.market) /\ InRange(score_in.center)))
       => IsErrorReport(score_out)
    /\ (score_op \in {"calculate_proximity_score", "estimate_travel_time",
                      "calculate_shipping_cost_factor"}
           /\ score_in.distance_km.num < 0)
       => IsErrorReport(score_out)

---------------------------------------------------------------------------
(* Vocabulary of the benchmark properties *)

BenchmarksCreated == bench_op = "create_sku_benchmarks"

(* positions of the priced observations of a (market, sku) group *)
PricedIn(data, market_id, sku_id) ==
    {i \in 1..Len(data) : /\ data[i].market_id = market_id
                          /\ data[i].sku_id = sku_id
                          /\ data[i].unit_price # 0}

BenchmarksOf(market_id, sku_id) ==
    {k \in 1..Len(benchmarks) : /\ benchmarks[k].market_id = market_id
                                /\ benchmarks[k].sku_id = sku_id}

(* C14: create_sku_benchmarks returns exactly one RegionalBenchmark for each
   (market_id, sku_id) group with at least min_sample_size priced
   observations and none for a smaller group; sample_size is the number of
   priced observations of the group, vendor_count the number of distinct
   vendor ids of the group, and min_price <= median_price <= max_price and
   min_price <= avg_price <= max_price. *)
C14_OneBenchmarkPerLargeGroup ==
    BenchmarksCreated =>
        /\ \A r \in BenchObservations :
               LET priced == PricedIn(bench_data, r.market_id, r.sku_id)
               IN  Cardinality(BenchmarksOf(r.market_id, r.sku_id))
                       = IF Cardinality(priced) >= benchmarker.min_sample_size
                         THEN 1 ELSE 0
        /\ \A k \in 1..Len(benchmarks) :
               LET b == benchmarks[k]
                   priced == PricedIn(bench_data, b.market_id, b.sku_id)
                   group == {i \in 1..Len(bench_data) :
                                /\ bench_data[i].market_id = b.market_id
                                /\ bench_data[i].sku_id = b.sku_id}
               IN  /\ priced # {}
                   /\ b.sample_size = Cardinality(priced)
                   /\ b.vendor_count
                          = Cardinality({bench_data[i].vendor_id : i \in group})
                   /\ \A i \in priced :
                          /\ AtMost(b.min_price, RInt(bench_data[i].unit_price))
                          /\ AtMost(RInt(bench_data[i].unit_price), b.max_price)
                   /\ \E i \in priced : b.min_price = RInt(bench_data[i].unit_price)
                   /\ \E i \in priced : b.max_price = RInt(bench_data[i].unit_price)
                   /\ AtMost(b.min_price, b.median_price)
                   /\ AtMost(b.median_price, b.max_price)
                   /\ AtMost(b.min_price, b.avg_price)
                   /\ AtMost(b.avg_price, b.max_price)
                   /\ b.avg_price.num * b.sample_size
                          = b.avg_price.den
                                * ISum([i \in 1..Len(GroupRecords(bench_data, b)) |->
                                           GroupRecords(bench_data, b)[i].unit_price])

C14_Witness ==
    /\ BenchmarksCreated
    /\ benchmarker.min_sample_size = 2
    /\ Len(benchmarks) = 1
    /\ benchmarks[1].sample_size = 2
    /\ benchmarks[1].vendor_count = 3
    /\ benchmarks[1].min_price # benchmarks[1].max_price
    /\ benchmarks[1].avg_price # benchmarks[1].min_price

(* the priced historical observations of the key of a benchmark *)
HistoryOf(b) ==
    {i \in 1..Len(historical_data) :
        /\ historical_data[i].market_id = b.market_id
        /\ historical_data[i].sku_id = b.sku_id
        /\ historical_data[i].unit_price # 0}

RECURSIVE SumOver(_, _)
SumOver(data, positions) ==
    IF positions = {} THEN 0
    ELSE LET i == CHOOSE i \in positions : TRUE
         IN  data[i].unit_price + SumOver(data, positions \ {i})

(* C15: the trend label of every benchmark agrees with its
   trend_percentage: increasing iff it is above 2, decreasing iff it is
   below -2, stable otherwise; with no priced historical observation of the
   (market, sku) key, or a historical mean that is not positive, the trend
   is stable and trend_percentage 0. *)
C15_TrendLabelAgrees ==
    BenchmarksCreated =>
        \A k \in 1..Len(benchmarks) :
            LET b == benchmarks[k]
                pct == b.trend_percentage
                hist == HistoryOf(b)
                hist_sum == SumOver(historical_data, hist)
            IN  /\ b.price_trend = "increasing" <=> pct.num > 2 * pct.den
                /\ b.price_trend = "decreasing" <=> pct.num < -2 * pct.den
                /\ b.price_trend = "stable" <=>
                       (pct.num <= 2 * pct.den /\ pct.num >= -2 * pct.den)
                /\ (hist = {} \/ hist_sum <= 0) =>
                       (b.price_trend = "stable" /\ pct = RZero)
                /\ (hist # {} /\ hist_sum > 0) =>
                       pct.num * hist_sum * b.avg_price.den
                           = pct.den * 100
                               * (b.avg_price.num * Cardinality(hist)
                                      - hist_sum * b.avg_price.den)

C15_Witness ==
    /\ BenchmarksCreated
    /\ Len(benchmarks) = 2
    /\ benchmarks[1].price_trend = "increasing"
    /\ benchmarks[2].price_trend = "decreasing"
    /\ HistoryOf(benchmarks[1]) # {}

VendorCompared == bench_op = "compare_vendor_to_benchmark"

(* the vendor records that are to be compared: a positive price and a
   benchmark of the same (market_id, sku_id) *)
Comparable ==
    SelectSeq(vendor_pricing,
              LAMBDA r : r.unit_price > 0
                         /\ BenchmarksOf(r.market_id, r.sku_id) # {})

(* C16: compare_vendor_to_benchmark returns, in input order, one comparison
   for exactly the vendor records with unit_price > 0 and a benchmark of the
   same (market_id, sku_id); price_position is below_market iff
   variance_from_avg_pct < -5, above_market iff > 5, at_market otherwise, so
   a vendor priced at the benchmark average is at_market with variance 0. *)
C16_ComparesPricedKnownKeys ==
    VendorCompared =>
        /\ Len(comparisons) = Len(Comparable)
        /\ \A i \in 1..Len(comparisons) :
               LET c == comparisons[i]
                   r == Comparable[i]
                   v == c.variance_from_avg_pct
               IN  /\ c.market_id = r.market_id /\ c.sku_id = r.sku_id
                   /\ c.vendor_price = RInt(r.unit_price)
                   /\ \E k \in BenchmarksOf(r.market_id, r.sku_id) :
                          c.benchmark_avg = benchmarks[k].avg_price
                   /\ c.price_position = "below_market" <=> v.num < -5 * v.den
                   /\ c.price_position = "above_market" <=> v.num > 5 * v.den
                   /\ c.price_position = "at_market" <=>
                          (v.num >= -5 * v.den /\ v.num <= 5 * v.den)
                   /\ c.benchmark_avg.num > 0 =>
                          v.num * c.benchmark_avg.num
                              = v.den * 100
                                  * (r.unit_price * c.benchmark_avg.den
                                         - c.benchmark_avg.num)
                   /\ c.vendor_price = c.benchmark_avg =>
                          (c.price_position = "at_market" /\ v = RZero)

C16_Witness ==
    /\ VendorCompared
    /\ Len(vendor_pricing) = 3
    /\ Len(comparisons) = 2
    /\ comparisons[1].vendor_price = comparisons[1].benchmark_avg
    /\ comparisons[1].price_position = "at_market"
    /\ comparisons[2].market_id # comparisons[1].market_id
    /\ vendor_pricing[2].unit_price = 0

(* C17: every comparison returned by compare_vendor_to_benchmark, the vendor
   price lying inside the benchmark range or not, has percentile_rank and
   competitiveness_score within [0, 100], and both are 50 when the
   benchmark's min and max prices are equal. *)
C17_RanksWithinBounds ==
    VendorCompared =>
        \A i \in 1..Len(comparisons) :
            LET c == comparisons[i]
            IN  /\ AtMost(RZero, c.percentile_rank)
                /\ AtMost(c.percentile_rank, RInt(100))
                /\ AtMost(RZero, c.competitiveness_score)
                /\ AtMost(c.competitiveness_score, RInt(100))
                /\ c.benchmark_min = c.benchmark_max =>
                       /\ c.percentile_rank = RInt(50)
                       /\ c.competitiveness_score = RInt(50)

(* the score of the cheapest price of a range has been computed *)
ScoredAtMin ==
    /\ score_op = "calculate_competitiveness_score"
    /\ score_in.vendor_price = score_in.min_price
    /\ score_in.min_price.num < score_in.max_price.num

(* the score of price = max_price for the arguments of the last call *)
ScoreAtMax ==
    calculate_competitiveness_score(score_in.max_price, score_in.min_price,
                                    score_in.max_price, score_in.avg_price)

(* C18: for all min, max, avg with 0 <= min < max, the competitiveness
   score of price = min is 100 and strictly greater than the score of
   price = max. *)
C18_CheapestBeatsDearest ==
    (ScoredAtMin /\ score_in.min_price.num >= 0) =>
        /\ ~IsErrorReport(score_out) /\ ~IsErrorReport(ScoreAtMax)
        /\ score_out = RInt(100)
        /\ ~AtMost(score_out, ScoreAtMax)

C18_Witness ==
    /\ ScoredAtMin
    /\ score_in.min_price.num > 0
    /\ ~AtMost(score_in.avg_price, score_in.max_price)
    /\ ~AtMost(ScoreAtMax, RZero)

(* C18 as stated: for all min, max, avg with min < max the score of
   price = min is strictly greater than the score of price = max. *)
C18_MinBeatsMaxForAll ==
    ScoredAtMin =>
        /\ ~IsErrorReport(score_out) /\ ~IsErrorReport(ScoreAtMax)
        /\ ~AtMost(score_out, ScoreAtMax)

Summarized == bench_op = "get_vendor_competitiveness_summary"

AboveMarket == {i \in 1..Len(comparisons) :
                   comparisons[i].price_position = "above_market"}

ComparedMarkets == {comparisons[i].market_id : i \in 1..Len(comparisons)}

SmallerOf(a, b) == IF a < b THEN a ELSE b

(* C19: over a non-empty comparison list get_vendor_competitiveness_summary
   reports total_skus equal to the number of comparisons, position counts
   that sum to total_skus, at most 3 best_markets in non-increasing average
   competitiveness and at most 10 improvement_opportunities, each taken from
   an above_market comparison, in non-increasing potential_reduction_pct;
   over an empty list it returns total_skus 0 with empty lists. *)
C19_SummaryCountsAndTops ==
    Summarized =>
        IF comparisons = <<>>
        THEN /\ summary.total_skus = 0
             /\ summary.best_markets = <<>>
             /\ summary.improvement_opportunities = <<>>
        ELSE LET pb == summary.position_breakdown
                 best == summary.best_markets
                 opps == summary.improvement_opportunities
             IN  /\ summary.total_skus = Len(comparisons)
                 /\ pb.below_market + pb.at_market + pb.above_market
                        = summary.total_skus
                 /\ pb.above_market = Cardinality(AboveMarket)
                 /\ Len(best) = SmallerOf(3, Cardinality(ComparedMarkets))
                 /\ \A j, k \in 1..Len(best) :
                        j < k => AtMost(best[k].avg_competitiveness,
                                        best[j].avg_competitiveness)
                 /\ \A k \in 1..Len(best) : best[k].market_id \in ComparedMarkets
                 /\ Len(opps) = SmallerOf(10, Cardinality(AboveMarket))
                 /\ \A k \in 1..Len(opps) :
                        \E i \in AboveMarket :
                            /\ comparisons[i].market_id = opps[k].market_id
                            /\ comparisons[i].sku_id = opps[k].sku_id
                            /\ comparisons[i].vendor_price = opps[k].current_price
                            /\ comparisons[i].variance_from_avg_pct
                                   = opps[k].potential_reduction_pct
                 /\ \A j, k \in 1..Len(opps) :
                        j < k => AtMost(opps[k].potential_reduction_pct,
                                        opps[j].potential_reduction_pct)

C19_Witness ==
    /\ Summarized
    /\ Cardinality(AboveMarket) = 11
    /\ Len(summary.improvement_opportunities) = 10
    /\ Cardinality(ComparedMarkets) = 4
    /\ Len(summary.best_markets) = 3
    /\ summary.improvement_opportunities[1].potential_reduction_pct
           # summary.improvement_opportunities[10].potential_reduction_pct

---------------------------------------------------------------------------
(* the markets in which a SKU has a priced observation *)
PricedMarkets(sku) == {m \in Markets : MarketPrices(sku, m) # <<>>}

VariancesOf(sku) == {i \in 1..Len(variances) : variances[i].sku_id = sku}

(* C20: calculate_regional_variance skips every SKU with fewer than 2
   distinct priced markets and produces, for every other SKU, exactly one
   PricingVariance per priced market other than the base: one per priced
   market against the global average, one fewer against a supplied market
   that the SKU is priced in; each has absolute_variance =
   comparison_price - base_price. *)
C20_OnePerNonBaseMarket ==
    last_op = "calculate_regional_variance" =>
        \A sku \in Skus :
            LET priced == PricedMarkets(sku)
                compared == IF base_arg # NoBase /\ base_arg \in priced
                            THEN priced \ {base_arg} ELSE priced
            IN  IF Cardinality(priced) < 2
                THEN VariancesOf(sku) = {}
                ELSE /\ Cardinality(VariancesOf(sku)) = Cardinality(compared)
                     /\ \A m \in compared :
                            \E i \in VariancesOf(sku) :
                                variances[i].comparison_region_id = m
                     /\ \A i \in VariancesOf(sku) :
                            LET v == variances[i]
                            IN  (v.absolute_variance.num
                                     * v.comparison_price.den * v.base_price.den
                                 = v.absolute_variance.den
                                     * (v.comparison_price.num * v.base_price.den
                                        - v.base_price.num * v.comparison_price.den))
---------------------------------------------------------------------------
(* C21: no operation of the three engines fails with a division by zero,
   whatever the input records and configuration (a regional adjustment
   factor of 0, an average speed of 0, a zero base price or mean, a
   single-sample group, equal min and max prices): what every operation
   leaves is a result, never a ZeroDivisionError. *)
C21_NoDivisionByZero ==
    /\ ~IsErrorReport(score_out)
    /\ ~IsRaised(variances)
    /\ ~IsRaised(anomalies)
---------------------------------------------------------------------------
(* Vocabulary of the high-variance properties.  For the priced prices s of a
   SKU, with n = Len(s) and S their sum, cv^2 = SumSqDev(s) / ((n - 1) * S^2) *)

HighVarianceCalled == last_op = "get_high_variance_skus"

CvScale(s) == (Len(s) - 1) * ISum(s) * ISum(s)

(* cv(sku) >= t and cv(a) > cv(b), on the unrounded values *)
CvAtLeast(sku, t) ==
    LET s == GroupPrices(sku)
    IN  \/ t.num <= 0
        \/ SumSqDev(s) * t.den * t.den >= t.num * t.num * CvScale(s)

CvGreater(a, b) ==
    SumSqDev(GroupPrices(a)) * CvScale(GroupPrices(b))
        > SumSqDev(GroupPrices(b)) * CvScale(GroupPrices(a))

(* C22: get_high_variance_skus returns exactly the SKUs with at least 2
   priced observations whose coefficient of variation is >= threshold_cv,
   each once, and in descending order of the unrounded coefficient of
   variation: no returned SKU comes after one with a smaller CV. *)
C22_HighVarianceByUnroundedCv ==
    HighVarianceCalled =>
        LET returned == [i \in 1..Len(high_variance) |-> high_variance[i].sku_id]
        IN  /\ Range(returned) =
                   {sku \in {r.sku_id : r \in Range(pricing_data)} :
                       /\ Len(GroupPrices(sku)) >= 2
                       /\ CvAtLeast(sku, cv_threshold)}
            /\ Cardinality(Range(returned)) = Len(returned)
            /\ \A i, j \in 1..Len(returned) :
                   i < j => ~CvGreater(returned[j], returned[i])
---------------------------------------------------------------------------
(* C23: two invocations of detect_anomalies, calculate_regional_variance,
   create_sku_benchmarks or compare_vendor_to_benchmark with the same input
   records and the same configuration return identical results, field for
   field, the identifiers and timestamps of the emitted entities included. *)
C23_SameInputSameOutput ==
    (run.op # "none" /\ previous_run.op = run.op
        /\ previous_run.input = run.input)
    => run.out = previous_run.out
---------------------------------------------------------------------------
(* Vocabulary of the statistics properties *)

StatisticsCalled == score_op = "calculate_statistics"

(* the k-th smallest of the integers of s, counted with repetitions *)
Kth(s, k) ==
    CHOOSE v \in Range(s) :
        /\ Cardinality({i \in 1..Len(s) : s[i] < v}) < k
        /\ Cardinality({i \in 1..Len(s) : s[i] <= v}) >= k

(* C24: calculate_statistics returns all seven statistics equal to 0 for an
   empty price list; for a non-empty list it returns the smallest and the
   largest price as min and max, range = max - min, the mean and a median
   both within [min, max], the median being the middle element of the
   sorted list for odd n and the average of the two central elements for
   even n, std_dev = 0 when n = 1, and cv = 0 whenever the mean is <= 0. *)
C24_StatisticsOfPrices ==
    StatisticsCalled =>
        LET s == score_in.prices
            n == Len(s)
            out == score_out
        IN  IF n = 0
            THEN \A k \in DOMAIN out : out[k] = F64Zero
            ELSE /\ out.min = PriceOf(Kth(s, 1))
                 /\ out.max = PriceOf(Kth(s, n))
                 /\ out.range = F64Sub(out.max, out.min)
                 /\ F64Le(out.min, out.mean) /\ F64Le(out.mean, out.max)
                 /\ F64Le(out.min, out.median) /\ F64Le(out.median, out.max)
                 /\ n % 2 = 1 => out.median = PriceOf(Kth(s, (n + 1) \div 2))
                 /\ n % 2 = 0 =>
                        out.median =
                            F64Div(F64Add(PriceOf(Kth(s, n \div 2)),
                                          PriceOf(Kth(s, n \div 2 + 1))),
                                   F64FromInt(2))
                 /\ n = 1 => out.std_dev = F64Zero
                 /\ F64Le(out.mean, F64Zero) => out.cv = F64Zero

(* three prices of 0.1 whose mean comes back above the largest of them *)
MeanAboveEqualPrices ==
    /\ StatisticsCalled
    /\ score_in.prices = <<1, 1, 1>>
    /\ score_out.max = PriceOf(1)
    /\ F64Gt(score_out.mean, score_out.max)
    /\ F64Gt(score_out.std_dev, F64Zero)

(* C25: in every CategoryBenchmark of create_category_benchmarks,
   top_vendors holds at most 5 vendors in non-increasing sku_count order,
   and the sku_count of each listed vendor is the number of distinct SKUs
   the vendor has in the (market, category) group, so it is never above the
   sku_count of the benchmark *)
CategoryBenchmarksCreated == bench_op = "create_category_benchmarks"

(* the SKUs a vendor has among the records of one market and category *)
VendorSkus(vendor_id, market_id, category_id) ==
    {r.sku_id : r \in {q \in Range(bench_data) :
                          /\ q.vendor_id = vendor_id
                          /\ q.market_id = market_id
                          /\ q.category_id = category_id}}

C25_TopVendorsBySkuCount ==
    CategoryBenchmarksCreated =>
        \A k \in 1..Len(benchmarks) :
            LET b == benchmarks[k]
                top == b.top_vendors
            IN  /\ Len(top) <= 5
                /\ \A i \in 1..Len(top) - 1 :
                       top[i].sku_count >= top[i + 1].sku_count
                /\ \A i \in 1..Len(top) :
                       /\ top[i].sku_count =
                              Cardinality(VendorSkus(top[i].vendor_id,
                                                     b.market_id,
                                                     b.category_id))
                       /\ top[i].sku_count <= b.sku_count

(* a vendor with two records of one SKU listed with a sku_count of 2 *)
VendorCountedPerRecord ==
    /\ CategoryBenchmarksCreated
    /\ bench_data = <<CategoryRecord("V-1", "SKU-1", "CAT-A", 100),
                      CategoryRecord("V-1", "SKU-1", "CAT-A", 110)>>
    /\ Len(benchmarks) = 1
    /\ benchmarks[1].sku_count = 1
    /\ benchmarks[1].top_vendors =
           <<[vendor_id |-> "V-1", vendor_name |-> "V-1", sku_count |-> 2]>>

(* C26: calculate_z_score returns 0 whenever std_dev is 0 and whenever value
   equals mean; so, with positive thresholds, a SKU whose priced
   observations all have the same price, or that has one priced
   observation, gets no price_spike and no price_drop anomaly from
   detect_anomalies *)
ZScoreCalled == score_op = "calculate_z_score"

(* the prices of the priced observations of a SKU, as a set *)
PricesOfSku(sku_id) ==
    {r.unit_price : r \in {q \in Range(pricing_data) :
                              q.sku_id = sku_id /\ q.unit_price # 0}}

PositiveThresholds ==
    /\ detector.z_score_threshold.num > 0
    /\ detector.variance_threshold_pct.num > 0

ObservationFlags(sku_id) ==
    {i \in 1..Len(anomalies) :
        /\ anomalies[i].sku_id = sku_id
        /\ anomalies[i].anomaly_type \in {"price_spike", "price_drop"}}

C26_ZScoreZeroOnDegenerate ==
    /\ (ZScoreCalled
           /\ (score_in.std_dev = 0 \/ score_in.value = score_in.mean))
       => score_out = F64Zero
    /\ (last_op = "detect_anomalies" /\ PositiveThresholds)
       => \A r \in Range(pricing_data) :
              Cardinality(PricesOfSku(r.sku_id)) <= 1
                  => ObservationFlags(r.sku_id) = {}

(* three equal prices of one SKU, each flagged as a price_drop *)
EqualPricesFlagged ==
    /\ last_op = "detect_anomalies"
    /\ detector.z_score_threshold = Rat(1, 2)
    /\ detector.variance_threshold_pct = RInt(1)
    /\ pricing_data = <<PricingRecord("SKU-U", "V-1", "MKT-1", 1),
                        PricingRecord("SKU-U", "V-2", "MKT-2", 1),
                        PricingRecord("SKU-U", "V-3", "MKT-1", 1)>>
    /\ Len(anomalies) = 3
    /\ \A i \in 1..3 :
           /\ anomalies[i].anomaly_type = "price_drop"
           /\ anomalies[i].severity = "low"
           /\ anomalies[i].actual_price = PriceOf(1)
           /\ F64Gt(anomalies[i].expected_price, PriceOf(1))
(* C27: with z_score_threshold >= 2 and variance_threshold_pct >= 15 no
   anomaly returned by detect_anomalies has severity low: every flag of an
   observation (price_spike, price_drop) is medium, high or critical, and
   every regional_variance flag is high or critical. *)
AtLeastDefaultThresholds ==
    /\ RGe(detector.z_score_threshold, RInt(2))
    /\ RGe(detector.variance_threshold_pct, RInt(15))

AnomaliesReturned ==
    last_op = "detect_anomalies" /\ ~IsRaised(anomalies)

C27_NoLowSeverityAtDefaults ==
    (AnomaliesReturned /\ AtLeastDefaultThresholds)
        => \A i \in 1..Len(anomalies) :
               /\ anomalies[i].severity # "low"
               /\ anomalies[i].anomaly_type \in {"price_spike", "price_drop"}
                      => anomalies[i].severity \in {"medium", "high", "critical"}
               /\ anomalies[i].anomaly_type = "regional_variance"
                      => anomalies[i].severity \in {"high", "critical"}

(* an observation flagged by its z-score alone (variance below 15 percent)
   comes back medium *)
C27_Witness ==
    /\ AnomaliesReturned
    /\ AtLeastDefaultThresholds
    /\ \E i \in 1..Len(anomalies) :
           /\ anomalies[i].anomaly_type = "price_spike"
           /\ anomalies[i].severity = "medium"
           /\ RLt(RAbs(anomalies[i].variance_percentage), RInt(15))
(* Vocabulary of the rate limiter properties *)

(* the granted timestamps inside the window that ends at t *)
GrantedInWindow(t) ==
    {j \in 1..Len(granted) :
        granted[j] > t - limiter.window_seconds /\ granted[j] <= t}

WindowRespected ==
    /\ Len(limiter.requests) <= limiter.max_requests
    /\ \A i \in 1..Len(granted) :
           Cardinality(GrantedInWindow(granted[i])) <= limiter.max_requests

WaitsForOldest ==
    acquire_pc = "sleeping" =>
        /\ Len(limiter.requests) >= limiter.max_requests
        /\ sleep_until = SeqMin(limiter.requests) + limiter.window_seconds

GrantedAfterWait ==
    (acquire_pc = "sleeping" /\ acquire_pc' = "returned") =>
        /\ wall' >= SeqMin(limiter.requests) + limiter.window_seconds
        /\ SeqMin(limiter.requests) \notin Range(limiter'.requests) \ {wall'}
        /\ granted' = Append(granted, wall')

(* C28: after any sequence of acquire() calls at non-decreasing times, for
   any max_requests >= 0 and window_seconds > 0, no window of window_seconds
   holds more than max_requests granted timestamps; a call made while the
   window is full sleeps until the oldest granted request has left the window
   and is granted only then; and every call returns True in the end, none
   raises. *)
C28_LimiterGrantsWithinWindow ==
    /\ [](acquire_pc # "none" => WindowRespected)
    /\ []WaitsForOldest
    /\ [][GrantedAfterWait]_vars
    /\ [](acquire_pc # "raised")
    /\ (acquire_pc = "sleeping") ~> (acquire_pc = "returned")

(* acquire() of a limiter with max_requests = 0 has raised ValueError *)
LimiterOfZeroRaises ==
    /\ limiter.max_requests = 0
    /\ acquire_pc = "raised"
    /\ granted = <<>>
(* Vocabulary of the pagination properties *)

RECURSIVE SumOfPages(_, _)
SumOfPages(field, k) ==
    IF k = 0 THEN 0
    ELSE SumOfPages(field, k - 1) + page_log[k].result[field]

(* the request failed, or its page is shorter than page_size, or it is a
   cursor page without next_cursor *)
LastPage(entry) ==
    \/ ~entry.result.api_response.success
    \/ entry.result.records_fetched < endpoint.page_size
    \/ /\ endpoint.pagination_type = "cursor"
       /\ entry.result.api_response.next_cursor = 0

PagesInOrder ==
    \A k \in 1..Len(page_log) :
        /\ page_log[k].page = k - 1
        /\ endpoint.pagination_type = "offset"
               => page_log[k].params.offset = (k - 1) * endpoint.page_size
        /\ endpoint.pagination_type = "page"
               => page_log[k].params.page = k
        /\ (endpoint.pagination_type = "cursor" /\ k > 1)
               => page_log[k].params.cursor =
                      page_log[k - 1].result.api_response.next_cursor

TotalsAreSums ==
    fetch_pc = "done" =>
        /\ combined_result.records_fetched =
               SumOfPages("records_fetched", Len(page_log))
        /\ combined_result.records_valid =
               SumOfPages("records_valid", Len(page_log))
        /\ combined_result.records_invalid =
               SumOfPages("records_invalid", Len(page_log))
        /\ Len(combined_result.fetched_data) = combined_result.records_valid

(* C29: fetch_paginated terminates after at most max_pages page requests:
   the k-th request is for page k (offset (k - 1) * page_size, page number
   k, or the cursor of the page before); no request follows a page whose
   fetch failed, that returned fewer than page_size records or, with cursor
   pagination, that carried no next_cursor; and the combined
   records_fetched, records_valid and records_invalid are the sums over the
   pages requested, with len(fetched_data) = records_valid. *)
C29_PaginationTerminatesWithSums ==
    /\ [](Len(page_log) <= endpoint.max_pages)
    /\ []PagesInOrder
    /\ [](\A k \in 1..(Len(page_log) - 1) : ~LastPage(page_log[k]))
    /\ [](Len(page_log) > 0 /\ LastPage(page_log[Len(page_log)])
              => fetch_pc \in {"exit", "done"})
    /\ []TotalsAreSums
    /\ (fetch_pc = "loop") ~> (fetch_pc = "done")

(* two full pages and a third that failed: three requests, the totals of
   the two pages *)
C29_Witness ==
    /\ fetch_pc = "done"
    /\ endpoint.max_pages = 3
    /\ endpoint.page_size = 2
    /\ Len(page_log) = 3
    /\ ~page_log[3].result.api_response.success
    /\ combined_result.records_fetched = 4
    /\ combined_result.records_invalid > 0

(* C30: a failed page request is never reported as success by
   fetch_paginated: whenever the fetch of a page returned success = False,
   the combined FetchResult has success = False and carries the api_error
   entry of that page in its errors. *)
C30_FailedPageNeverSuccess ==
    fetch_pc = "done" =>
        \A k \in 1..Len(page_log) :
            ~page_log[k].result.api_response.success
                => /\ ~combined_result.success
                   /\ [type |-> "api_error", request |-> k,
                        record_index |-> -1]
                          \in Range(combined_result.errors)

(* the first page request failed and the combined result says success *)
FailedPageReportedAsSuccess ==
    /\ fetch_pc = "done"
    /\ Len(page_log) = 1
    /\ ~page_log[1].result.api_response.success
    /\ combined_result.success
    /\ combined_result.errors =
           <<[type |-> "api_error", request |-> 1, record_index |-> -1]>>

====
